---- MODULE Spec2Model ----
(***************************************************************************)
(* Data module of the DC bicycle dashboard (src/js/main.js, lines 2636 to  *)
(* 3834): the loaders, the join of road segments with predictions,         *)
(* counters and census areas, the statistics and the filter queries.       *)
(*                                                                         *)
(* JavaScript values.  An object is a function from the names of the       *)
(* fields that hold a value to those values: a field that is absent, or    *)
(* that holds undefined, is not in the DOMAIN.  Numbers are integers       *)
(* (decimals of the built-in sample data are cut to their integer part),   *)
(* a quotient is kept exact as a pair num/den.  Objects that the code      *)
(* shares by reference carry a ref field naming the object, so that a      *)
(* write through one reference is seen through every other one.            *)
(***************************************************************************)
EXTENDS Integers, Sequences, FiniteSets, TLC

VARIABLES
    dataState,   \* the module state object (main.js 2641-2665)
    rounds,      \* one entry per initData call that started the six loads
    events,      \* number of data:loaded events dispatched
    returned,    \* the last value a query returned to its caller
    remembered,  \* history: one earlier query call and what it returned
    canonical,   \* history: the stored collections as the last handler left them
    loaded,      \* history: the six load results as the last handler received them
    page         \* the page: its DOMContentLoaded handler and the stats panel (main.js 4-173)

vars == <<dataState, rounds, events, returned, remembered, canonical, loaded, page>>

----------------------------------------------------------------------------
(* Objects                                                                 *)

Has(o, f) == f \in DOMAIN o

\* o.f = v
SetField(o, f, v) == [x \in DOMAIN o \cup {f} |-> IF x = f THEN v ELSE o[x]]

\* o.f = undefined
DelField(o, f) == [x \in DOMAIN o \ {f} |-> o[x]]

EmptyObject == [x \in {} |-> 0]

\* JavaScript truthiness of a numeric field and of a string field.
TruthyNum(o, f) == Has(o, f) /\ o[f] # 0
TruthyStr(o, f) == Has(o, f) /\ o[f] # ""

\* a.f1 || a.f2 || ... for numeric fields: the first truthy one, else none.
RECURSIVE FirstTruthyNum(_, _)
FirstTruthyNum(o, fs) ==
    IF fs = <<>> THEN <<>>
    ELSE IF TruthyNum(o, Head(fs)) THEN <<o[Head(fs)]>>
    ELSE FirstTruthyNum(o, Tail(fs))

\* a.f1 || a.f2 || ... || dflt
OrNum(o, fs, dflt) ==
    LET r == FirstTruthyNum(o, fs) IN IF r = <<>> THEN dflt ELSE r[1]

RECURSIVE FirstTruthyStr(_, _)
FirstTruthyStr(o, fs) ==
    IF fs = <<>> THEN <<>>
    ELSE IF TruthyStr(o, Head(fs)) THEN <<o[Head(fs)]>>
    ELSE FirstTruthyStr(o, Tail(fs))

OrStr(o, fs, dflt) ==
    LET r == FirstTruthyStr(o, fs) IN IF r = <<>> THEN dflt ELSE r[1]

Null == [type |-> "null"]
IsNull(v) == v = Null

\* A feature collection is [type, ref, features]; a parsed file that has no
\* features member lacks the field.
HasFeatures(c) == Has(c, "features")

\* The properties of the features of a collection, in order.
PropsOf(c) == [i \in DOMAIN c.features |-> c.features[i].properties]

----------------------------------------------------------------------------
(* Lookup builders (main.js 3162-3242).  A lookup is a JavaScript object     *)
(* used as a map: a function from the keys written so far to the entries;  *)
(* writing a key again replaces its entry.                                 *)

\* item['.pred'] parsed with parseFloat, or the next alias, or 0: parseFloat of
\* a number is that number and of an absent cell NaN, which is falsy.
PredictedEntry(item) ==
    [predicted     |-> OrNum(item, <<".pred", "predicted">>, 0),
     predicted_alt |-> OrNum(item, <<".pred.1", "predicted_alt">>, 0)]

\* Mutant of PredictedLookupUpTo: a key that is already in the lookup keeps its
\* entry.
RECURSIVE PredictedLookupUpTo_first(_, _)
PredictedLookupUpTo_first(rows, n) ==
    IF n = 0 THEN EmptyObject
    ELSE LET prev == PredictedLookupUpTo_first(rows, n - 1)
             item == rows[n]
         IN  IF TruthyStr(item, "SUBBLOCKKEY") /\ ~Has(prev, item["SUBBLOCKKEY"])
             THEN SetField(prev, item["SUBBLOCKKEY"], PredictedEntry(item))
             ELSE prev

RECURSIVE PredictedLookupUpTo(_, _)
PredictedLookupUpTo(rows, n) ==
    IF n = 0 THEN EmptyObject
    ELSE LET prev == PredictedLookupUpTo(rows, n - 1)
             item == rows[n]
         IN  IF TruthyStr(item, "SUBBLOCKKEY")
             THEN SetField(prev, item["SUBBLOCKKEY"], PredictedEntry(item))
             ELSE prev

createPredictedLookup(predictedData) ==
    IF ~IsNull(predictedData) /\ Len(predictedData.rows) > 0
    THEN PredictedLookupUpTo(predictedData.rows, Len(predictedData.rows))
    ELSE EmptyObject

CounterEntry(props) ==
    [OBSERVED_COUNT |-> OrNum(props, <<"COUNT", "OBSERVED_COUNT">>, 0),
     COUNTER_TYPE   |-> OrStr(props, <<"COUNTER_TYPE", "cntr_ty">>, "UNKNOWN")]

\* Mutant of CounterLookupUpTo: only counters with a SUBBLOCKKEY are indexed.
RECURSIVE CounterLookupUpTo_keyed(_, _)
CounterLookupUpTo_keyed(features, n) ==
    IF n = 0 THEN EmptyObject
    ELSE LET prev  == CounterLookupUpTo_keyed(features, n - 1)
             props == features[n].properties
         IN  IF TruthyStr(props, "SUBBLOCKKEY")
             THEN SetField(prev, props["SUBBLOCKKEY"], CounterEntry(props))
             ELSE prev

RECURSIVE CounterLookupUpTo(_, _)
CounterLookupUpTo(features, n) ==
    IF n = 0 THEN EmptyObject
    ELSE LET prev  == CounterLookupUpTo(features, n - 1)
             props == features[n].properties
         IN  IF TruthyStr(props, "SUBBLOCKKEY")
             THEN SetField(prev, props["SUBBLOCKKEY"], CounterEntry(props))
             ELSE IF TruthyStr(props, "Site_Nm")
             THEN SetField(prev, props["Site_Nm"], CounterEntry(props))
             ELSE prev

createCounterLookup(counterData) ==
    IF ~IsNull(counterData) /\ HasFeatures(counterData)
       /\ Len(counterData.features) > 0
    THEN CounterLookupUpTo(counterData.features, Len(counterData.features))
    ELSE EmptyObject

\* The census entry: each lookup field with the source field it is read from.
CensusFieldMap ==
    << <<"GEOID", "GEOID">>, <<"POPULATION", "popltnE">>,
       <<"MEDIAN_INCOME", "mdn_ncE">>, <<"COMMUTE_TIME", "cmmt__E">>,
       <<"BIKE_COMMUTE", "cmmt_bE">>, <<"EDUCATION", "ed_bc_E">>,
       <<"WHITE_PERCENTAGE", "pct_white">>, <<"RENT_PRICE", "rnt_prE">>,
       <<"MEDIAN_AGE", "medn_gE">> >>

CensusFields == {CensusFieldMap[i][1] : i \in DOMAIN CensusFieldMap}

CensusSourceOf(f) ==
    LET i == CHOOSE j \in DOMAIN CensusFieldMap : CensusFieldMap[j][1] = f
    IN  CensusFieldMap[i][2]

CensusEntry(props) ==
    [f \in {g \in CensusFields : Has(props, CensusSourceOf(g))}
        |-> props[CensusSourceOf(f)]]

RECURSIVE CensusLookupUpTo(_, _)
CensusLookupUpTo(features, n) ==
    IF n = 0 THEN EmptyObject
    ELSE LET prev  == CensusLookupUpTo(features, n - 1)
             props == features[n].properties
         IN  IF TruthyStr(props, "SUBBLOC")
             THEN SetField(prev, props["SUBBLOC"], CensusEntry(props))
             ELSE prev

createCensusLookup(censusData) ==
    IF ~IsNull(censusData) /\ HasFeatures(censusData)
       /\ Len(censusData.features) > 0
    THEN CensusLookupUpTo(censusData.features, Len(censusData.features))
    ELSE EmptyObject

----------------------------------------------------------------------------
(* The join (main.js 3045-3155)                                            *)

\* Object.assign(props, entry): every field of the census entry is written,
\* the ones the entry holds as undefined included.
AssignCensus(props, entry) ==
    [f \in (DOMAIN props \ CensusFields) \cup DOMAIN entry |->
        IF f \in DOMAIN entry THEN entry[f] ELSE props[f]]

\* Mutant of AttachPredicted: a key the lookup lacks gets predicted 0.
AttachPredicted_zero(props, key, predictedLookup) ==
    IF Has(predictedLookup, key)
    THEN SetField(SetField(props, "predicted", predictedLookup[key].predicted),
                  "predicted_alt", predictedLookup[key].predicted_alt)
    ELSE SetField(props, "predicted", OrNum(props, <<"predicted">>, 0))

AttachPredicted(props, key, predictedLookup) ==
    IF Has(predictedLookup, key)
    THEN SetField(SetField(props, "predicted", predictedLookup[key].predicted),
                  "predicted_alt", predictedLookup[key].predicted_alt)
    ELSE props

AttachCounter(props, key, counterLookup) ==
    IF Has(counterLookup, key)
    THEN SetField(SetField(props, "OBSERVED_COUNT", counterLookup[key].OBSERVED_COUNT),
                  "COUNTER_TYPE", counterLookup[key].COUNTER_TYPE)
    ELSE props

AttachCensus(props, key, censusLookup) ==
    IF Has(censusLookup, key) THEN AssignCensus(props, censusLookup[key]) ELSE props

\* DEGREE, BETWEEN, CLOSENESS: the *_max field or 0, then Number(.. || 0).
AttachCentrality(props) ==
    LET a == SetField(props, "DEGREE", OrNum(props, <<"degree_max">>, 0))
        b == SetField(a, "BETWEEN", OrNum(a, <<"betweenness_max">>, 0))
    IN  SetField(b, "CLOSENESS", OrNum(b, <<"closeness_max">>, 0))

\* The six census attributes: the segment's own alias first, then the field
\* the census entry wrote, then 0.
CensusAliasMap ==
    << <<"POPULATION", "populationE">>, <<"MEDIAN_INCOME", "median_incomeE">>,
       <<"BIKE_COMMUTE", "commute_bicycleE">>, <<"EDUCATION", "edu_bachelors_plusE">>,
       <<"RENT_PRICE", "rent_percentE">>, <<"MEDIAN_AGE", "median_ageE">> >>

RECURSIVE AttachCensusAliasesUpTo(_, _)
AttachCensusAliasesUpTo(props, n) ==
    IF n = 0 THEN props
    ELSE LET p == AttachCensusAliasesUpTo(props, n - 1)
             f == CensusAliasMap[n][1]
             a == CensusAliasMap[n][2]
         IN  SetField(p, f, OrNum(p, <<a, f>>, 0))

AttachCensusAliases(props) == AttachCensusAliasesUpTo(props, Len(CensusAliasMap))

\* if (props.OBSERVED_COUNT && props.predicted) { residual; percent_error }
ResidualGuard(props) == TruthyNum(props, "OBSERVED_COUNT") /\ TruthyNum(props, "predicted")

\* Mutant of AttachResidual: the difference is taken the other way round.
AttachResidual_reversed(props) ==
    IF ResidualGuard(props)
    THEN LET residual == props["predicted"] - props["OBSERVED_COUNT"]
         IN  SetField(SetField(props, "residual", residual),
                      "percent_error",
                      [num |-> residual * 100, den |-> props["OBSERVED_COUNT"]])
    ELSE props

AttachResidual(props) ==
    IF ResidualGuard(props)
    THEN LET residual == props["OBSERVED_COUNT"] - props["predicted"]
         IN  SetField(SetField(props, "residual", residual),
                      "percent_error",
                      [num |-> residual * 100, den |-> props["OBSERVED_COUNT"]])
    ELSE props

HighTraffic == 80
MediumTraffic == 40

\* if (props.predicted) { traffic_level by the two thresholds }
TrafficGuard(props) == TruthyNum(props, "predicted")

AttachTrafficLevel(props) ==
    IF TrafficGuard(props)
    THEN SetField(props, "traffic_level",
                  IF props["predicted"] >= HighTraffic THEN "high"
                  ELSE IF props["predicted"] >= MediumTraffic THEN "medium"
                  ELSE "low")
    ELSE props

\* The representative point: coords[Math.floor(length / 2)], arrays 0-based.
\* A point is <<lng, lat>>; <<>> stands for no point (an index past the end,
\* or the TypeError on an empty MultiLineString, which the code catches).
MidPoint(geometry) ==
    LET coords == geometry.coordinates IN
    IF geometry.type = "LineString"
    THEN IF Len(coords) = 0 THEN <<>> ELSE coords[(Len(coords) \div 2) + 1]
    ELSE IF geometry.type = "MultiLineString"
    THEN IF Len(coords) = 0 THEN <<>>
         ELSE LET line == coords[(Len(coords) \div 2) + 1]
              IN  IF Len(line) = 0 THEN <<>> ELSE line[(Len(line) \div 2) + 1]
    ELSE <<>>

AttachMidPoint(props, geometry) ==
    IF Has(geometry, "coordinates") /\ MidPoint(geometry) # <<>>
    THEN SetField(SetField(props, "lat", MidPoint(geometry)[2]),
                  "lng", MidPoint(geometry)[1])
    ELSE props

\* const subblockKey = props.SUBBLOCKKEY || props.SUBBLOK
SubblockKey(props) == OrStr(props, <<"SUBBLOCKKEY", "SUBBLOK">>, "")

\* Mutant of JoinFeature: the body runs without the if (subblockKey) guard.
JoinFeature_unguarded(feature, predictedLookup, counterLookup, censusLookup) ==
    [feature EXCEPT !.properties =
        AttachMidPoint(AttachCensusAliases(AttachCentrality(feature.properties)),
                       feature.geometry)]

\* The body of the forEach over roadData.features.
JoinFeature(feature, predictedLookup, counterLookup, censusLookup) ==
    LET props == feature.properties
        key   == SubblockKey(props)
    IN  IF key # ""
        THEN [feature EXCEPT !.properties =
                AttachMidPoint(
                  AttachTrafficLevel(
                    AttachResidual(
                      AttachCensusAliases(
                        AttachCentrality(
                          AttachCensus(
                            AttachCounter(
                              AttachPredicted(props, key, predictedLookup),
                              key, counterLookup),
                            key, censusLookup))))),
                  feature.geometry)]
        ELSE feature

\* The road collection after processRoadNetworkData: the features are enriched
\* in place, so the collection keeps its length and order.
processRoadNetworkData(roadData, counterData, predictedData, censusData) ==
    IF IsNull(roadData) \/ ~HasFeatures(roadData) THEN roadData
    ELSE [roadData EXCEPT !.features =
            [i \in DOMAIN roadData.features |->
                JoinFeature(roadData.features[i],
                            createPredictedLookup(predictedData),
                            createCounterLookup(counterData),
                            createCensusLookup(censusData))]]

----------------------------------------------------------------------------
(* processData and updateCounterPointsWithObservedData (main.js 2789-2847) *)

\* observedCountMap: for each prediction row with a key and a truthy observed,
\* OBSERVED_COUNT or .pred cell, that value under the row's key.
RECURSIVE ObservedCountMapUpTo(_, _)
ObservedCountMapUpTo(rows, n) ==
    IF n = 0 THEN EmptyObject
    ELSE LET prev == ObservedCountMapUpTo(rows, n - 1)
             item == rows[n]
             cell == FirstTruthyNum(item, <<"observed", "OBSERVED_COUNT", ".pred">>)
         IN  IF TruthyStr(item, "SUBBLOCKKEY") /\ cell # <<>>
             THEN SetField(prev, item["SUBBLOCKKEY"], cell[1])
             ELSE prev

\* Math.floor(Math.random() * 80) + 20 ranges over RandomBase .. RandomBase +
\* RandomSpan - 1; the model draws the two ends.
RandomBase == 20
RandomSpan == 80
RandomFill == {RandomBase, RandomBase + RandomSpan - 1}

\* One counter feature after the forEach body; fill is the random draw.
UpdateCounterFeature(feature, observedCountMap, fill) ==
    LET props == feature.properties
        key   == OrStr(props, <<"SUBBLOCKKEY", "Site_Nm">>, "")
        count == IF key # "" /\ TruthyNum(observedCountMap, key)
                 THEN observedCountMap[key]
                 ELSE OrNum(props, <<"COUNT">>, fill)
    IN  [feature EXCEPT !.properties =
            SetField(SetField(props, "COUNT", count), "OBSERVED_COUNT", count)]

updateCounterPointsWithObservedData(counterData, predictionsData, fills) ==
    IF HasFeatures(counterData)
    THEN [counterData EXCEPT !.features =
            [i \in DOMAIN counterData.features |->
                UpdateCounterFeature(
                    counterData.features[i],
                    ObservedCountMapUpTo(predictionsData.rows, Len(predictionsData.rows)),
                    fills[i])]]
    ELSE counterData

\* The stored counter and road collections after processData.
ProcessedCounters(ds, fills) ==
    IF ~IsNull(ds.counterPointsData) /\ ~IsNull(ds.predictionsData)
    THEN updateCounterPointsWithObservedData(ds.counterPointsData, ds.predictionsData, fills)
    ELSE ds.counterPointsData

processData(ds, fills) ==
    LET counters == ProcessedCounters(ds, fills)
    IN  [ds EXCEPT
           !.counterPointsData = counters,
           !.roadNetworkData =
               IF ~IsNull(ds.roadNetworkData) /\ ~IsNull(counters)
                  /\ ~IsNull(ds.predictionsData) /\ ~IsNull(ds.censusData)
               THEN processRoadNetworkData(ds.roadNetworkData, counters,
                                           ds.predictionsData, ds.censusData)
               ELSE ds.roadNetworkData]

----------------------------------------------------------------------------
(* extractNeighborhoodsList (main.js 3249-3267)                            *)

\* Array.sort() orders the names as strings; NameOrder lists the names of the
\* model in that order.
NameOrder == <<"Capitol Hill", "Downtown", "Unknown">>

NeighborhoodName(props) == OrStr(props, <<"DC_HPN_NAME", "NAME", "NEIGHBORHOOD">>, "Unknown")

extractNeighborhoodsList(neighborhoodData) ==
    LET names == IF ~IsNull(neighborhoodData) /\ HasFeatures(neighborhoodData)
                 THEN {NeighborhoodName(neighborhoodData.features[i].properties) :
                          i \in DOMAIN neighborhoodData.features}
                 ELSE {}
        InNames(n) == n \in names
    IN  SelectSeq(NameOrder, InNames)

----------------------------------------------------------------------------
(* calculateStatistics (main.js 3272-3398)                                 *)

\* Math.round of the quotient num / den, den > 0: floor(num / den + 1/2).
Round(num, den) == (2 * num + den) \div (2 * den)

Abs(x) == IF x < 0 THEN -x ELSE x

RECURSIVE GCD(_, _)
GCD(a, b) == IF b = 0 THEN a ELSE GCD(b, a % b)

\* The quotient num / den, den > 0, in lowest terms.
Lowest(num, den) ==
    LET g == GCD(Abs(num), den) IN [num |-> num \div g, den |-> den \div g]

RECURSIVE SumSeq(_)
SumSeq(values) == IF values = <<>> THEN 0 ELSE Head(values) + SumSeq(Tail(values))

ObservedTerm(props) == IF TruthyNum(props, "OBSERVED_COUNT") THEN props["OBSERVED_COUNT"] ELSE 0
ObservedOne(props) == IF TruthyNum(props, "OBSERVED_COUNT") THEN 1 ELSE 0
EstimatedTerm(props) == IF TruthyNum(props, "predicted") THEN props["predicted"] ELSE 0
EstimatedOne(props) == IF TruthyNum(props, "predicted") THEN 1 ELSE 0

SegLength(props) == OrNum(props, <<"SEG_LEN", "segment_length">>, 0)

\* const bikeFacility = props.BIKE_FT || props.bike_facility_type || ''
HasBikeLane(props) ==
    LET bikeFacility == OrStr(props, <<"BIKE_FT", "bike_facility_type">>, "")
    IN  bikeFacility # "" /\ bikeFacility # "None" /\ bikeFacility # "NA"

BikePathTerm(props) == IF HasBikeLane(props) THEN SegLength(props) ELSE 0

\* Mutant of IncomeOne: every segment counts in the denominator.
IncomeOne_every(props) == 1

IncomeTerm(props) == OrNum(props, <<"MEDIAN_INCOME", "median_incomeE">>, 0)
IncomeOne(props) == IF IncomeTerm(props) # 0 THEN 1 ELSE 0
PopulationTerm(props) == OrNum(props, <<"POPULATION", "populationE">>, 0)
PopulationOne(props) == IF PopulationTerm(props) # 0 THEN 1 ELSE 0
BikeCommuteTerm(props) == OrNum(props, <<"BIKE_COMMUTE", "commute_bicycleE">>, 0)
BikeCommuteOne(props) == IF BikeCommuteTerm(props) # 0 THEN 1 ELSE 0
EducationTerm(props) == OrNum(props, <<"EDUCATION", "edu_bachelors_plusE">>, 0)
EducationOne(props) == IF EducationTerm(props) # 0 THEN 1 ELSE 0

\* count > 0 ? Math.round(total / count) : 0
RoundedMean(total, count) == IF count > 0 THEN Round(total, count) ELSE 0

\* neighborhoodCounts[n]: the OBSERVED_COUNT || predicted || 0 of the segments of n.
NeighborhoodCount(features, n) ==
    LET Term(props) ==
            IF TruthyStr(props, "NEIGHBORHOOD") /\ props["NEIGHBORHOOD"] = n
            THEN OrNum(props, <<"OBSERVED_COUNT", "predicted">>, 0)
            ELSE 0
    IN  SumSeq([i \in DOMAIN features |-> Term(features[i].properties)])

\* The keys of neighborhoodCounts in insertion order: each neighbourhood at its
\* first segment.
RECURSIVE NeighborhoodKeysUpTo(_, _)
NeighborhoodKeysUpTo(features, n) ==
    IF n = 0 THEN <<>>
    ELSE LET prev  == NeighborhoodKeysUpTo(features, n - 1)
             props == features[n].properties
         IN  IF TruthyStr(props, "NEIGHBORHOOD")
                /\ \A i \in DOMAIN prev : prev[i] # props["NEIGHBORHOOD"]
             THEN Append(prev, props["NEIGHBORHOOD"])
             ELSE prev

\* The loop over Object.entries: a later entry wins only with a larger count.
RECURSIVE MostActiveUpTo(_, _, _)
MostActiveUpTo(features, keys, n) ==
    IF n = 0 THEN [area |-> "Unknown", count |-> 0]
    ELSE LET prev == MostActiveUpTo(features, keys, n - 1)
             c    == NeighborhoodCount(features, keys[n])
         IN  IF c > prev.count THEN [area |-> keys[n], count |-> c] ELSE prev

\* errorSum as an exact quotient: the sum of |observed - predicted| / observed
\* over the first n features that pass the guard.
RECURSIVE ErrorSumUpTo(_, _)
ErrorSumUpTo(features, n) ==
    IF n = 0 THEN [num |-> 0, den |-> 1]
    ELSE LET prev  == ErrorSumUpTo(features, n - 1)
             props == features[n].properties
         IN  IF ResidualGuard(props)
             THEN Lowest(prev.num * props["OBSERVED_COUNT"]
                           + Abs(props["OBSERVED_COUNT"] - props["predicted"]) * prev.den,
                         prev.den * props["OBSERVED_COUNT"])
             ELSE prev

ErrorOne(props) == IF ResidualGuard(props) THEN 1 ELSE 0

\* Math.round(100 * (1 - errorSum / errorCount)), or 0 with no error term.
ModelAccuracy(features) ==
    LET errorSum   == ErrorSumUpTo(features, Len(features))
        errorCount == SumSeq([i \in DOMAIN features |-> ErrorOne(features[i].properties)])
    IN  IF errorCount > 0
        THEN Round(100 * (errorCount * errorSum.den - errorSum.num),
                   errorCount * errorSum.den)
        ELSE 0

BusyHours == <<8, 9, 17, 18>>

StatisticsOf(features) ==
    LET estimatedTotal == SumSeq([i \in DOMAIN features |-> EstimatedTerm(features[i].properties)])
        estimatedCount == SumSeq([i \in DOMAIN features |-> EstimatedOne(features[i].properties)])
        totalRoadLength == SumSeq([i \in DOMAIN features |-> SegLength(features[i].properties)])
        bikePathLength  == SumSeq([i \in DOMAIN features |-> BikePathTerm(features[i].properties)])
        keys           == NeighborhoodKeysUpTo(features, Len(features))
    IN  [totalObserved      |-> SumSeq([i \in DOMAIN features |-> ObservedTerm(features[i].properties)]),
         totalEstimated     |-> estimatedTotal,
         averagePredicted   |-> IF estimatedCount > 0
                                THEN [num |-> estimatedTotal, den |-> estimatedCount]
                                ELSE [num |-> 0, den |-> 1],
         observedSegments   |-> SumSeq([i \in DOMAIN features |-> ObservedOne(features[i].properties)]),
         bikeLaneCoverage   |-> IF totalRoadLength # 0
                                THEN Round(bikePathLength * 100, totalRoadLength)
                                ELSE 0,
         mostActiveArea     |-> MostActiveUpTo(features, keys, Len(keys)).area,
         busyHours          |-> BusyHours,
         modelAccuracy      |-> ModelAccuracy(features),
         averageIncome      |-> RoundedMean(SumSeq([i \in DOMAIN features |-> IncomeTerm(features[i].properties)]),
                                            SumSeq([i \in DOMAIN features |-> IncomeOne(features[i].properties)])),
         averagePopulation  |-> RoundedMean(SumSeq([i \in DOMAIN features |-> PopulationTerm(features[i].properties)]),
                                            SumSeq([i \in DOMAIN features |-> PopulationOne(features[i].properties)])),
         averageBikeCommute |-> RoundedMean(SumSeq([i \in DOMAIN features |-> BikeCommuteTerm(features[i].properties)]),
                                            SumSeq([i \in DOMAIN features |-> BikeCommuteOne(features[i].properties)])),
         averageEducation   |-> RoundedMean(SumSeq([i \in DOMAIN features |-> EducationTerm(features[i].properties)]),
                                            SumSeq([i \in DOMAIN features |-> EducationOne(features[i].properties)]))]

\* With no road collection, or one without features, both loops are skipped.
calculateStatistics(ds) ==
    IF ~IsNull(ds.roadNetworkData) /\ HasFeatures(ds.roadNetworkData)
    THEN StatisticsOf(ds.roadNetworkData.features)
    ELSE StatisticsOf(<<>>)

----------------------------------------------------------------------------
(* Features, collections and the built-in sample data (main.js 3538-3724). *)
(* ref names the JavaScript object: "store" for the objects the loaders    *)
(* hand to the data state, "copy" for the ones a query creates.  id is the *)
(* feature's position in its file.  Coordinates are <<lng, lat>> in        *)
(* hundredths of a degree; only road geometries are read by the module.    *)

Feature(id, props) == [ref |-> "store", id |-> id, properties |-> props]

RoadFeature(id, props, geometry) ==
    [ref |-> "store", id |-> id, properties |-> props, geometry |-> geometry]

LineString(coords) == [type |-> "LineString", coordinates |-> coords]
MultiLineString(coords) == [type |-> "MultiLineString", coordinates |-> coords]

Collection(features) == [type |-> "FeatureCollection", ref |-> "store", features |-> features]

\* A parsed JSON document that is an object without a features member.
NoFeaturesDocument == [type |-> "FeatureCollection", ref |-> "store"]

\* A parsed CSV: the array of row objects.
Rows(rows) == [type |-> "Array", rows |-> rows]

defaultRoadNetworkData ==
    Collection(<<
        RoadFeature(1,
            [SUBBLOCKKEY |-> "sample_road_1", FULLNAME |-> "Main Street NW",
             BIKE_FT |-> "Protected", NEIGHBORHOOD |-> "Downtown", SEG_LEN |-> 25,
             RD_CLASS |-> "Local", OBSERVED_COUNT |-> 75, predicted |-> 78],
            LineString(<< <<-7702, 3890>>, <<-7703, 3890>> >>)),
        RoadFeature(2,
            [SUBBLOCKKEY |-> "sample_road_2", FULLNAME |-> "H Street NE",
             BIKE_FT |-> "Unprotected", NEIGHBORHOOD |-> "Capitol Hill", SEG_LEN |-> 15,
             RD_CLASS |-> "Collector", predicted |-> 45],
            LineString(<< <<-7699, 3890>>, <<-7698, 3890>> >>)) >>)

defaultCounterData ==
    Collection(<<
        Feature(1, [SUBBLOCKKEY |-> "sample_road_1", Site_Nm |-> "Counter 1",
                    cntr_ty |-> "AUTO", COUNT |-> 75]),
        Feature(2, [SUBBLOCKKEY |-> "sample_road_2", Site_Nm |-> "Counter 2",
                    cntr_ty |-> "MANUAL", COUNT |-> 45]) >>)

defaultNeighborhoodData ==
    Collection(<<
        Feature(1, [DC_HPN_NAME |-> "Downtown", GEOID |-> "11001000100"]),
        Feature(2, [DC_HPN_NAME |-> "Capitol Hill", GEOID |-> "11001000200"]) >>)

defaultCensusData ==
    Collection(<<
        Feature(1, [SUBBLOC |-> "sample_road_1", GEOID |-> "11001000100",
                    popltnE |-> 5000, mdn_ncE |-> 85000, cmmt__E |-> 22, cmmt_bE |-> 5,
                    ed_bc_E |-> 75, rnt_prE |-> 2200, medn_gE |-> 32]) >>)

defaultPredictionsData ==
    Rows(<< (".pred" :> 78) @@ (".pred.1" :> 80) @@ ("Site.Name" :> "Counter 1") @@
            [SUBBLOCKKEY |-> "sample_road_1"],
            (".pred" :> 45) @@ (".pred.1" :> 47) @@ ("Site.Name" :> "") @@
            [SUBBLOCKKEY |-> "sample_road_2"] >>)

----------------------------------------------------------------------------
(* Temporal predictions (main.js 2729-2784)                                *)

\* String(n) for a natural number n.
Digit(d) == CASE d = 0 -> "0" [] d = 1 -> "1" [] d = 2 -> "2" [] d = 3 -> "3"
              [] d = 4 -> "4" [] d = 5 -> "5" [] d = 6 -> "6" [] d = 7 -> "7"
              [] d = 8 -> "8" [] OTHER -> "9"

RECURSIVE NatToString(_)
NatToString(n) == IF n < 10 THEN Digit(n) ELSE NatToString(n \div 10) \o Digit(n % 10)

\* A key as a caller or a CSV cell holds it: [num |-> n], [str |-> s], or
\* Undefined.  String(v) of each is StringOf(v).
Undefined == [undefined |-> TRUE]
Num(n) == [num |-> n]
Str(t) == [str |-> t]

StringOf(v) ==
    IF Has(v, "num") THEN NatToString(v.num)
    ELSE IF Has(v, "str") THEN v.str
    ELSE "undefined"

HoursPerDay == 24

\* Array(24).fill(0): indexes 0 .. 23.
ZeroDay == [h \in 0 .. HoursPerDay - 1 |-> 0]

\* The table after one row of the forEach.  A row is an object with the cells
\* GEOID (a key as above), dotw, hour and hr_pred; a cell the row lacks is
\* undefined.
TemporalRow(table, row) ==
    LET geoid == StringOf(IF Has(row, "GEOID") THEN row["GEOID"] ELSE Undefined)
    IN  IF geoid = "" \/ ~Has(row, "dotw") \/ ~Has(row, "hour") \/ ~Has(row, "hr_pred")
        THEN table
        ELSE LET days == IF Has(table, geoid) THEN table[geoid] ELSE EmptyObject
                 hours == IF Has(days, row["dotw"]) THEN days[row["dotw"]] ELSE ZeroDay
             IN  SetField(table, geoid,
                          SetField(days, row["dotw"],
                                   SetField(hours, row["hour"], row["hr_pred"])))

RECURSIVE TemporalTableUpTo(_, _)
TemporalTableUpTo(parsed, n) ==
    IF n = 0 THEN EmptyObject
    ELSE TemporalRow(TemporalTableUpTo(parsed, n - 1), parsed[n])

\* Mutant of getTemporalPredictionsForSegment: an absent key answers with a
\* zero-filled week instead of null.
getTemporalPredictionsForSegment_zeroed(ds, geoid) ==
    LET key == StringOf(geoid)
    IN  [found |-> TRUE,
         days  |-> IF Has(ds.temporalPredictions, key)
                   THEN ds.temporalPredictions[key]
                   ELSE [d \in 1 .. 7 |-> ZeroDay]]

\* return dataState.temporalPredictions[key] || null: a day table is an object
\* and so truthy.
getTemporalPredictionsForSegment(ds, geoid) ==
    LET key == StringOf(geoid)
    IN  IF Has(ds.temporalPredictions, key)
        THEN [found |-> TRUE, days |-> ds.temporalPredictions[key]]
        ELSE Null

----------------------------------------------------------------------------
(* Filter queries (main.js 3405-3532)                                      *)

\* A filters object: neighborhood, counterType, viewType and volumeFilter.  A
\* volumeFilter is [isArray |-> FALSE, value |-> name] ("all" or one category)
\* or [isArray |-> TRUE, value |-> sequence of names].
AllVolumes == [isArray |-> FALSE, value |-> "all"]
IsAllVolumes(volumeFilter) == ~volumeFilter.isArray /\ volumeFilter.value = "all"
OneVolume(category) == [isArray |-> FALSE, value |-> category]
VolumeList(categories) == [isArray |-> TRUE, value |-> categories]

HighVolume == 80
MediumHighVolume == 50
MediumVolume == 30
MediumLowVolume == 10

\* Mutant of isInVolumeCategory: the lower edges are open.
isInVolumeCategory_open(count, category) ==
    CASE category = "high"        -> count > HighVolume
      [] category = "medium-high" -> count > MediumHighVolume /\ count < HighVolume
      [] category = "medium"      -> count > MediumVolume /\ count < MediumHighVolume
      [] category = "medium-low"  -> count > MediumLowVolume /\ count < MediumVolume
      [] category = "low"         -> count < MediumLowVolume
      [] OTHER                    -> TRUE

isInVolumeCategory(count, category) ==
    CASE category = "high"        -> count >= HighVolume
      [] category = "medium-high" -> count >= MediumHighVolume /\ count < HighVolume
      [] category = "medium"      -> count >= MediumVolume /\ count < MediumHighVolume
      [] category = "medium-low"  -> count >= MediumLowVolume /\ count < MediumVolume
      [] category = "low"         -> count < MediumLowVolume
      [] OTHER                    -> TRUE

getCountForFeature(feature, filters) ==
    LET props == feature.properties IN
    IF filters.viewType = "observed" /\ TruthyNum(props, "OBSERVED_COUNT")
    THEN props["OBSERVED_COUNT"]
    ELSE IF filters.viewType = "predicted" /\ TruthyNum(props, "predicted")
    THEN props["predicted"]
    ELSE OrNum(props, <<"OBSERVED_COUNT", "predicted">>, 0)

\* props.f !== wanted, for a string field f.
DiffersFrom(props, f, wanted) == ~Has(props, f) \/ props[f] # wanted

\* Mutant of PassesVolume: a list of categories is tested with every, not some.
PassesVolume_every(feature, filters) ==
    \/ IsAllVolumes(filters.volumeFilter)
    \/ /\ ~IsAllVolumes(filters.volumeFilter)
       /\ IF filters.volumeFilter.isArray
          THEN \A i \in DOMAIN filters.volumeFilter.value :
                  isInVolumeCategory(getCountForFeature(feature, filters),
                                     filters.volumeFilter.value[i])
          ELSE isInVolumeCategory(getCountForFeature(feature, filters),
                                  filters.volumeFilter.value)

\* The volume part of the road predicate.
PassesVolume(feature, filters) ==
    \/ IsAllVolumes(filters.volumeFilter)
    \/ /\ ~IsAllVolumes(filters.volumeFilter)
       /\ IF filters.volumeFilter.isArray
          THEN \E i \in DOMAIN filters.volumeFilter.value :
                  isInVolumeCategory(getCountForFeature(feature, filters),
                                     filters.volumeFilter.value[i])
          ELSE isInVolumeCategory(getCountForFeature(feature, filters),
                                  filters.volumeFilter.value)

\* Mutant of RoadFilter: a segment that passes the neighbourhood test or the
\* counter type test goes on to the volume test.
RoadFilter_either(feature, filters) ==
    /\ \/ ~(filters.neighborhood # "all"
            /\ DiffersFrom(feature.properties, "NEIGHBORHOOD", filters.neighborhood))
       \/ ~(filters.counterType # "all"
            /\ DiffersFrom(feature.properties, "COUNTER_TYPE", filters.counterType))
    /\ PassesVolume(feature, filters)

\* The callback of filteredData.features.filter in getFilteredRoadData.
RoadFilter(feature, filters) ==
    /\ ~(filters.neighborhood # "all"
         /\ DiffersFrom(feature.properties, "NEIGHBORHOOD", filters.neighborhood))
    /\ ~(filters.counterType # "all"
         /\ DiffersFrom(feature.properties, "COUNTER_TYPE", filters.counterType))
    /\ PassesVolume(feature, filters)

\* The callback of filteredData.features.filter in getFilteredCounterData.
CounterFilter(feature, filters) ==
    /\ ~(filters.neighborhood # "all"
         /\ DiffersFrom(feature.properties, "NEIGHBORHOOD", filters.neighborhood))
    /\ ~(filters.counterType # "all"
         /\ OrStr(feature.properties, <<"COUNTER_TYPE", "cntr_ty">>, "") # filters.counterType)

\* Mutant of JSONCopy: the collection itself, not a copy.
JSONCopy_alias(collection) == collection

\* JSON.parse(JSON.stringify(collection)): new objects throughout, holding the
\* fields of the original that have a value.
JSONCopy(collection) ==
    IF HasFeatures(collection)
    THEN [collection EXCEPT
             !.ref = "copy",
             !.features = [i \in DOMAIN collection.features |->
                              [collection.features[i] EXCEPT !.ref = "copy"]]]
    ELSE [collection EXCEPT !.ref = "copy"]

\* The value a query throws instead of returning.
TypeError == [type |-> "TypeError"]

\* Mutant of WriteFeatures: the filtered features are assigned to the stored
\* collection.
WriteFeatures_stored(stored, obj, kept) == [stored EXCEPT !.features = kept]

\* obj.features = kept, seen through a reference to stored: the stored
\* collection itself when obj is that object.
WriteFeatures(stored, obj, kept) ==
    IF obj.ref = stored.ref THEN [stored EXCEPT !.features = kept] ELSE stored

\* What getFilteredRoadData returns, and the stored road collection after it.
getFilteredRoadData(ds, filters) ==
    IF IsNull(ds.roadNetworkData)
    THEN [value |-> Null, stored |-> ds.roadNetworkData]
    ELSE LET filteredData == JSONCopy(ds.roadNetworkData)
             Keep(feature) == RoadFilter(feature, filters)
         IN  IF ~HasFeatures(filteredData)
             THEN [value |-> TypeError, stored |-> ds.roadNetworkData]
             ELSE LET kept == SelectSeq(filteredData.features, Keep)
                  IN  [value  |-> [filteredData EXCEPT !.features = kept],
                       stored |-> WriteFeatures(ds.roadNetworkData, filteredData, kept)]

getFilteredCounterData(ds, filters) ==
    IF IsNull(ds.counterPointsData)
    THEN [value |-> Null, stored |-> ds.counterPointsData]
    ELSE LET filteredData == JSONCopy(ds.counterPointsData)
             Keep(feature) == CounterFilter(feature, filters)
         IN  IF ~HasFeatures(filteredData)
             THEN [value |-> TypeError, stored |-> ds.counterPointsData]
             ELSE LET kept == SelectSeq(filteredData.features, Keep)
                  IN  [value  |-> [filteredData EXCEPT !.features = kept],
                       stored |-> WriteFeatures(ds.counterPointsData, filteredData, kept)]

\* A caller's write feature.properties[f] = v on a feature it was handed, seen
\* through a stored collection: the stored feature that is the same object
\* changes with it.
WriteProperty(stored, target, f, v) ==
    IF IsNull(stored) \/ ~HasFeatures(stored) THEN stored
    ELSE [stored EXCEPT !.features =
            [i \in DOMAIN stored.features |->
                IF stored.features[i].ref = target.ref /\ stored.features[i].id = target.id
                THEN [stored.features[i] EXCEPT !.properties = SetField(@, f, v)]
                ELSE stored.features[i]]]

----------------------------------------------------------------------------
(* compareWithAverage (main.js 3767-3817)                                  *)

\* The status of a percent difference.
ComparisonStatus(percentDiff) ==
    IF percentDiff > 50 THEN "very-high"
    ELSE IF percentDiff > 20 THEN "high"
    ELSE IF percentDiff < -50 THEN "very-low"
    ELSE IF percentDiff < -20 THEN "low"
    ELSE "normal"

\* One entry of the comparison; the average is the quotient num / den.
ComparisonItem(value, num, den) ==
    LET percentDiff == IF num # 0 THEN Round((value * den - num) * 100, num) ELSE 0
    IN  [value |-> value, average |-> [num |-> num, den |-> den],
         percentDiff |-> percentDiff,
         status |-> IF num # 0 THEN ComparisonStatus(percentDiff) ELSE "normal"]

compareWithAverage(ds, segmentProps) ==
    [bikeCount   |-> ComparisonItem(OrNum(segmentProps, <<"predicted">>, 0),
                                    ds.statistics.averagePredicted.num,
                                    ds.statistics.averagePredicted.den),
     income      |-> ComparisonItem(OrNum(segmentProps, <<"MEDIAN_INCOME", "median_incomeE">>, 0),
                                    ds.statistics.averageIncome, 1),
     bikeCommute |-> ComparisonItem(OrNum(segmentProps, <<"BIKE_COMMUTE", "commute_bicycleE">>, 0),
                                    ds.statistics.averageBikeCommute, 1),
     population  |-> ComparisonItem(OrNum(segmentProps, <<"POPULATION", "populationE">>, 0),
                                    ds.statistics.averagePopulation, 1)]

----------------------------------------------------------------------------
(* The data state and initData (main.js 2641-2723)                         *)

InitialStatistics ==
    [totalObserved |-> 0, totalEstimated |-> 0, averagePredicted |-> [num |-> 0, den |-> 1],
     bikeLaneCoverage |-> 0, mostActiveArea |-> "", busyHours |-> <<>>,
     modelAccuracy |-> 0, averageIncome |-> 0, averagePopulation |-> 0,
     averageBikeCommute |-> 0, averageEducation |-> 0]

InitialDataState ==
    [isInitialized |-> FALSE, roadNetworkData |-> Null, counterPointsData |-> Null,
     neighborhoodBoundaries |-> Null, predictionsData |-> Null, censusData |-> Null,
     temporalPredictions |-> EmptyObject, statistics |-> InitialStatistics,
     neighborhoodsList |-> <<>>]

Loaders == {"road", "counter", "neighborhood", "census", "predictions", "temporal"}

\* The promise of one loader: fetching its path, the road loader fetching its
\* backup path, settled with a value, or rejected.
\* source tells where a settled value came from: the loader's path ("file"),
\* the road loader's backup path ("backup") or the catch ("fallback").
Fetching == [state |-> "fetching", value |-> Null, source |-> "none"]
FetchingBackup == [state |-> "backup", value |-> Null, source |-> "none"]
Settled(value, source) == [state |-> "settled", value |-> value, source |-> source]
Rejected == [state |-> "rejected", value |-> Null, source |-> "none"]

\* One call of initData that went past the isInitialized guard: the six loader
\* promises and the promise initData returned.
NewRound == [load |-> [l \in Loaders |-> Fetching], promise |-> "pending"]

\* A query call: its name, its argument, the value it returned, and whether
\* the caller has since written to that value (touched).  In the remembered
\* call, later tells how many queries ran after it: "none", "one" or "more".
NoCall == [call |-> "none", args |-> EmptyObject, value |-> Null,
           touched |-> FALSE, later |-> "none"]
Call(name, args, value) == [call |-> name, args |-> args, value |-> value,
                            touched |-> FALSE, later |-> "none"]

\* The then-callback of Promise.all: store the six results, processData, the
\* neighbourhood list, calculateStatistics, isInitialized.
HandlerResult(ds, values, fills) ==
    LET stored    == [ds EXCEPT !.roadNetworkData = values["road"],
                                !.counterPointsData = values["counter"],
                                !.neighborhoodBoundaries = values["neighborhood"],
                                !.censusData = values["census"],
                                !.predictionsData = values["predictions"]]
        processed == processData(stored, fills)
        listed    == [processed EXCEPT !.neighborhoodsList =
                         IF ~IsNull(values["neighborhood"]) /\ HasFeatures(values["neighborhood"])
                         THEN extractNeighborhoodsList(values["neighborhood"])
                         ELSE @]
    IN  [listed EXCEPT !.statistics = calculateStatistics(listed),
                       !.isInitialized = TRUE]

\* The random draws of updateCounterPointsWithObservedData: one per counter
\* feature, RandomBase where the draw is not read.
FillChoices(values) ==
    LET counters == values["counter"]
        rows     == values["predictions"].rows
        map      == ObservedCountMapUpTo(rows, Len(rows))
        Drawn(i) == LET props == counters.features[i].properties
                        key   == OrStr(props, <<"SUBBLOCKKEY", "Site_Nm">>, "")
                    IN  ~(key # "" /\ TruthyNum(map, key)) /\ ~TruthyNum(props, "COUNT")
    IN  IF ~IsNull(counters) /\ ~IsNull(values["predictions"]) /\ HasFeatures(counters)
        THEN {fills \in [DOMAIN counters.features -> RandomFill] :
                 \A i \in DOMAIN counters.features : ~Drawn(i) => fills[i] = RandomBase}
        ELSE {<<>>}

----------------------------------------------------------------------------
(* The static files of the page session: what each path parses to when its *)
(* fetch succeeds.  Keys are segment keys as the sources spell them.       *)

RoadFiles ==
    {Collection(<<
        RoadFeature(1, [SUBBLOCKKEY |-> "101", NEIGHBORHOOD |-> "Downtown",
                        BIKE_FT |-> "Protected", SEG_LEN |-> 10],
                    LineString(<< <<-7702, 3890>>, <<-7703, 3891>>, <<-7704, 3892>> >>)),
        RoadFeature(2, [FULLNAME |-> "Alley", NEIGHBORHOOD |-> "Capitol Hill",
                        BIKE_FT |-> "None", SEG_LEN |-> 30],
                    LineString(<< <<-7699, 3890>>, <<-7698, 3890>> >>)) >>)}

BackupRoadFiles ==
    {Collection(<<
        RoadFeature(1, [SUBBLOK |-> "102", NEIGHBORHOOD |-> "Downtown"],
                    MultiLineString(<< << <<-7702, 3890>>, <<-7703, 3891>> >> >>)) >>),
     NoFeaturesDocument}

CounterFiles ==
    {Collection(<<
        Feature(1, [SUBBLOCKKEY |-> "101", Site_Nm |-> "Counter 1",
                    cntr_ty |-> "AUTO", COUNT |-> 100]),
        Feature(2, [Site_Nm |-> "102", cntr_ty |-> "MANUAL"]) >>)}

NeighborhoodFiles ==
    {Collection(<< Feature(1, [NAME |-> "Downtown"]), Feature(2, EmptyObject) >>)}

CensusFiles ==
    {Collection(<< Feature(1, [SUBBLOC |-> "101", GEOID |-> "11001000100",
                               popltnE |-> 4000, mdn_ncE |-> 90000]) >>)}

PredictionFiles ==
    {Rows(<< (".pred" :> 80) @@ (".pred.1" :> 82) @@ [SUBBLOCKKEY |-> "101"],
             (".pred" :> 0) @@ [SUBBLOCKKEY |-> "102"] >>)}

TemporalFiles ==
    {<< [GEOID |-> Num(101), dotw |-> 1, hour |-> 8, hr_pred |-> 12],
        [GEOID |-> Num(101), dotw |-> 1, hour |-> 17, hr_pred |-> 0],
        [GEOID |-> Str("102"), dotw |-> 7, hour |-> 0, hr_pred |-> 0],
        [GEOID |-> Num(103), dotw |-> 2] >>}

\* How a fetch fails: a non-success status, a body that does not parse, or a
\* document without the features the loader reads.
FailureKinds == {"status", "parse", "shape"}

\* The counter loader's pass over a loaded file: COUNT = 0 where a feature has
\* neither COUNT nor OBSERVED_COUNT.
CounterFileLoaded(data) ==
    [data EXCEPT !.features =
        [i \in DOMAIN data.features |->
            IF ~TruthyNum(data.features[i].properties, "COUNT")
               /\ ~TruthyNum(data.features[i].properties, "OBSERVED_COUNT")
            THEN [data.features[i] EXCEPT !.properties = SetField(@, "COUNT", 0)]
            ELSE data.features[i]]]

----------------------------------------------------------------------------
(* Actions                                                                 *)

\* The page: whether its DOMContentLoaded handler has run (ready), where the
\* then-callback it attached to initData() stands (then), the click listeners
\* on .stats-toggle, whether .mini-stats-panel has the class expanded, and as
\* history the number of clicks on the toggle and the class before the last one.
InitialPage == [ready |-> FALSE, then |-> "none", listeners |-> 0,
                expanded |-> FALSE, clicks |-> 0, before |-> FALSE]

\* setupUIListeners: addEventListener with a new function object at each call,
\* so every call adds a listener.
setupUIListeners(p) == [p EXCEPT !.listeners = @ + 1]

\* The class after n listeners have each run classList.toggle('expanded').
RECURSIVE ToggleTimes(_, _)
ToggleTimes(expanded, n) == IF n = 0 THEN expanded ELSE ToggleTimes(~expanded, n - 1)

MaxInitCalls == 1

Settle(r, l, status) == rounds' = [rounds EXCEPT ![r].load[l] = status]

IsFetching(r, l) == rounds[r].promise = "pending" /\ rounds[r].load[l].state = "fetching"

\* Mutant of InitData: a call on an initialized state starts the six loads
\* again.
InitData_unguarded ==
    /\ Len(rounds) < MaxInitCalls + (IF dataState.isInitialized THEN 1 ELSE 0)
    /\ rounds' = Append(rounds, NewRound)
    /\ returned' = Call("initData", EmptyObject, [promise |-> "pending"])
    /\ UNCHANGED <<dataState, events, remembered, canonical, loaded, page>>

\* initData(): the resolved promise when already initialized, else the six
\* loads, all started before the call returns.
InitDataUpTo(calls) ==
    /\ IF dataState.isInitialized
       THEN /\ rounds' = rounds
            /\ returned' = Call("initData", EmptyObject, [promise |-> "resolved"])
       ELSE /\ Len(rounds) < calls
            /\ rounds' = Append(rounds, NewRound)
            /\ returned' = Call("initData", EmptyObject, [promise |-> "pending"])
    /\ UNCHANGED <<dataState, events, remembered, canonical, loaded, page>>

InitData == InitDataUpTo(MaxInitCalls)

LoadRoadOk ==
    \E r \in DOMAIN rounds :
        /\ IsFetching(r, "road")
        /\ \E data \in RoadFiles : Settle(r, "road", Settled(data, "file"))
        /\ UNCHANGED <<dataState, events, returned, remembered, canonical, loaded, page>>

\* The catch of the first fetch: try the backup path.
LoadRoadFail ==
    \E r \in DOMAIN rounds :
        /\ IsFetching(r, "road")
        /\ \E kind \in FailureKinds : Settle(r, "road", FetchingBackup)
        /\ UNCHANGED <<dataState, events, returned, remembered, canonical, loaded, page>>

\* The backup document is returned as parsed, whatever it holds.
LoadRoadBackupOk ==
    \E r \in DOMAIN rounds :
        /\ rounds[r].promise = "pending"
        /\ rounds[r].load["road"].state = "backup"
        /\ \E data \in BackupRoadFiles : Settle(r, "road", Settled(data, "backup"))
        /\ UNCHANGED <<dataState, events, returned, remembered, canonical, loaded, page>>

\* Mutant of RoadBackupCatch: the catch of the backup fetch rethrows.
RoadBackupCatch_rethrows == Rejected

\* Mutant of RoadBackupCatch: the catch of the backup fetch starts over with
\* the first path.
RoadBackupCatch_retry == Fetching

RoadBackupCatch == Settled(defaultRoadNetworkData, "fallback")

LoadRoadBackupFail ==
    \E r \in DOMAIN rounds :
        /\ rounds[r].promise = "pending"
        /\ rounds[r].load["road"].state = "backup"
        /\ \E kind \in FailureKinds \ {"shape"} : Settle(r, "road", RoadBackupCatch)
        /\ UNCHANGED <<dataState, events, returned, remembered, canonical, loaded, page>>

LoadCounterOk ==
    \E r \in DOMAIN rounds :
        /\ IsFetching(r, "counter")
        /\ \E data \in CounterFiles : Settle(r, "counter", Settled(CounterFileLoaded(data), "file"))
        /\ UNCHANGED <<dataState, events, returned, remembered, canonical, loaded, page>>

CounterCatch == Settled(defaultCounterData, "fallback")

LoadCounterFail ==
    \E r \in DOMAIN rounds :
        /\ IsFetching(r, "counter")
        /\ \E kind \in FailureKinds : Settle(r, "counter", CounterCatch)
        /\ UNCHANGED <<dataState, events, returned, remembered, canonical, loaded, page>>

LoadNeighborhoodOk ==
    \E r \in DOMAIN rounds :
        /\ IsFetching(r, "neighborhood")
        /\ \E data \in NeighborhoodFiles : Settle(r, "neighborhood", Settled(data, "file"))
        /\ UNCHANGED <<dataState, events, returned, remembered, canonical, loaded, page>>

NeighborhoodCatch == Settled(defaultNeighborhoodData, "fallback")

LoadNeighborhoodFail ==
    \E r \in DOMAIN rounds :
        /\ IsFetching(r, "neighborhood")
        /\ \E kind \in FailureKinds : Settle(r, "neighborhood", NeighborhoodCatch)
        /\ UNCHANGED <<dataState, events, returned, remembered, canonical, loaded, page>>

LoadCensusOk ==
    \E r \in DOMAIN rounds :
        /\ IsFetching(r, "census")
        /\ \E data \in CensusFiles : Settle(r, "census", Settled(data, "file"))
        /\ UNCHANGED <<dataState, events, returned, remembered, canonical, loaded, page>>

CensusCatch == Settled(defaultCensusData, "fallback")

LoadCensusFail ==
    \E r \in DOMAIN rounds :
        /\ IsFetching(r, "census")
        /\ \E kind \in FailureKinds : Settle(r, "census", CensusCatch)
        /\ UNCHANGED <<dataState, events, returned, remembered, canonical, loaded, page>>

LoadPredictionsOk ==
    \E r \in DOMAIN rounds :
        /\ IsFetching(r, "predictions")
        /\ \E data \in PredictionFiles : Settle(r, "predictions", Settled(data, "file"))
        /\ UNCHANGED <<dataState, events, returned, remembered, canonical, loaded, page>>

PredictionsCatch == Settled(defaultPredictionsData, "fallback")

LoadPredictionsFail ==
    \E r \in DOMAIN rounds :
        /\ IsFetching(r, "predictions")
        /\ \E kind \in FailureKinds \ {"shape"} : Settle(r, "predictions", PredictionsCatch)
        /\ UNCHANGED <<dataState, events, returned, remembered, canonical, loaded, page>>

\* The temporal loader fills dataState.temporalPredictions itself and resolves
\* with undefined.
\* The then-callback of the temporal fetch over a parsed file: the table is
\* emptied and rebuilt row by row.
LoadTemporalFrom(files) ==
    \E r \in DOMAIN rounds :
        /\ IsFetching(r, "temporal")
        /\ \E parsed \in files :
              dataState' = [dataState EXCEPT
                               !.temporalPredictions = TemporalTableUpTo(parsed, Len(parsed))]
        /\ Settle(r, "temporal", Settled(Undefined, "file"))
        /\ UNCHANGED <<events, returned, remembered, canonical, loaded, page>>

LoadTemporalOk == LoadTemporalFrom(TemporalFiles)

TemporalCatch == EmptyObject

LoadTemporalFail ==
    \E r \in DOMAIN rounds :
        /\ IsFetching(r, "temporal")
        /\ \E kind \in FailureKinds \ {"shape"} :
              dataState' = [dataState EXCEPT !.temporalPredictions = TemporalCatch]
        /\ Settle(r, "temporal", Settled(Undefined, "fallback"))
        /\ UNCHANGED <<events, returned, remembered, canonical, loaded, page>>

\* Mutant of AllSettled: the callback runs on the first fulfilled load.
AllSettled_any(r) == \E l \in Loaders : rounds[r].load[l].state = "settled"

\* Promise.all over the six loader promises.
AnyRejected(r) == \E l \in Loaders : rounds[r].load[l].state = "rejected"
AllSettled(r) == \A l \in Loaders : rounds[r].load[l].state = "settled"

\* Promise.all settles: it rejects with the first rejection (the catch of
\* initData rethrows), else, once all six are fulfilled, the then-callback
\* runs, dispatches data:loaded and resolves the promise of initData.
AllLoaded ==
    \E r \in DOMAIN rounds :
        /\ rounds[r].promise = "pending"
        /\ IF AnyRejected(r)
           THEN /\ rounds' = [rounds EXCEPT ![r].promise = "rejected"]
                /\ UNCHANGED <<dataState, events, canonical, loaded>>
           ELSE /\ AllSettled(r)
                /\ LET values == [l \in Loaders |-> rounds[r].load[l].value] IN
                   \E fills \in FillChoices(values) :
                      LET ds == HandlerResult(dataState, values, fills) IN
                      /\ dataState' = ds
                      /\ canonical' = [road |-> ds.roadNetworkData, counter |-> ds.counterPointsData]
                      /\ loaded' = [round |-> r, values |-> values]
                /\ events' = events + 1
                /\ rounds' = [rounds EXCEPT ![r].promise = "resolved"]
        /\ UNCHANGED <<returned, remembered, page>>

Later(l) == IF l = "none" THEN "one" ELSE "more"

\* History: a call is kept as the remembered call, once, when keep is chosen.
Remember(call, choices) ==
    IF remembered.call = "none"
    THEN \E keep \in choices : remembered' = IF keep THEN call ELSE remembered
    ELSE remembered' = [remembered EXCEPT !.later = Later(@)]

\* A query that is never the remembered one.
Age == remembered' = IF remembered.call = "none" THEN remembered
                     ELSE [remembered EXCEPT !.later = Later(@)]

\* A caller (the rendering layer) asks for the filtered road view.
GetFilteredRoadData(filterSet, choices) ==
    \E filters \in filterSet :
        LET result == getFilteredRoadData(dataState, filters) IN
        /\ dataState' = [dataState EXCEPT !.roadNetworkData = result.stored]
        /\ returned' = Call("getFilteredRoadData", filters, result.value)
        /\ Remember(Call("getFilteredRoadData", filters, result.value), choices)
        /\ UNCHANGED <<rounds, events, canonical, loaded, page>>

GetFilteredCounterData(filterSet, choices) ==
    \E filters \in filterSet :
        LET result == getFilteredCounterData(dataState, filters) IN
        /\ dataState' = [dataState EXCEPT !.counterPointsData = result.stored]
        /\ returned' = Call("getFilteredCounterData", filters, result.value)
        /\ Remember(Call("getFilteredCounterData", filters, result.value), choices)
        /\ UNCHANGED <<rounds, events, canonical, loaded, page>>

GetTemporalPredictionsForSegment(keySet) ==
    \E geoid \in keySet :
        /\ returned' = Call("getTemporalPredictionsForSegment", geoid,
                            getTemporalPredictionsForSegment(dataState, geoid))
        /\ Age
        /\ UNCHANGED <<dataState, rounds, events, canonical, loaded, page>>

\* The detail sidebar compares a stored segment with the city averages.
CompareWithAverage ==
    /\ ~IsNull(dataState.roadNetworkData)
    /\ HasFeatures(dataState.roadNetworkData)
    /\ \E i \in DOMAIN dataState.roadNetworkData.features :
          returned' = Call("compareWithAverage", [segment |-> i],
                           compareWithAverage(dataState,
                               dataState.roadNetworkData.features[i].properties))
    /\ Age
    /\ UNCHANGED <<dataState, rounds, events, canonical, loaded, page>>

\* The caller writes a property of a feature of the collection it was handed.
CallerWrites ==
    /\ returned.call \in {"getFilteredRoadData", "getFilteredCounterData"}
    /\ ~returned.touched
    /\ HasFeatures(returned.value)
    /\ \E i \in DOMAIN returned.value.features :
          LET target == returned.value.features[i] IN
          /\ returned' = [returned EXCEPT
                             !.touched = TRUE,
                             !.value.features[i].properties = SetField(@, "marked", 1)]
          /\ dataState' = [dataState EXCEPT
                             !.roadNetworkData = WriteProperty(@, target, "marked", 1),
                             !.counterPointsData = WriteProperty(@, target, "marked", 1)]
    /\ UNCHANGED <<rounds, events, remembered, canonical, loaded, page>>

----------------------------------------------------------------------------
(* Spec: one page session, from the empty data state.                      *)

AllTypes == [neighborhood |-> "all", counterType |-> "all",
             volumeFilter |-> AllVolumes, viewType |-> "combined"]

\* The filters the page asks with.
PageFilters ==
    {AllTypes,
     [AllTypes EXCEPT !.neighborhood = "Downtown"],
     [AllTypes EXCEPT !.counterType = "AUTO"],
     [AllTypes EXCEPT !.volumeFilter = VolumeList(<<"high", "low">>)]}

\* The keys the page looks up: a number, the same key as a string, keys
\* no file holds.
PageKeys == {Num(101), Str("101"), Str("102"), Num(104), Undefined}

Init ==
    /\ dataState = InitialDataState
    /\ rounds = <<>>
    /\ events = 0
    /\ returned = NoCall
    /\ remembered = NoCall
    /\ canonical = [road |-> Null, counter |-> Null]
    /\ loaded = Null
    /\ page = InitialPage

Next ==
    \/ InitData
    \/ LoadRoadOk
    \/ LoadRoadFail
    \/ LoadRoadBackupOk
    \/ LoadRoadBackupFail
    \/ LoadCounterOk
    \/ LoadCounterFail
    \/ LoadNeighborhoodOk
    \/ LoadNeighborhoodFail
    \/ LoadCensusOk
    \/ LoadCensusFail
    \/ LoadPredictionsOk
    \/ LoadPredictionsFail
    \/ LoadTemporalOk
    \/ LoadTemporalFail
    \/ AllLoaded
    \/ GetFilteredRoadData(PageFilters, {FALSE})
    \/ GetFilteredCounterData(PageFilters, {FALSE})
    \/ GetTemporalPredictionsForSegment(PageKeys)
    \/ CompareWithAverage
    \/ CallerWrites

Spec == Init /\ [][Next]_vars

----------------------------------------------------------------------------
(* SpecFair: the steps of initData alone, under fairness.  The queries are *)
(* left out: they read and write no promise.                               *)

\* A fetch settles, with a response or with a failure.
FetchStep ==
    \/ LoadRoadOk \/ LoadRoadFail \/ LoadRoadBackupOk \/ LoadRoadBackupFail
    \/ LoadCounterOk \/ LoadCounterFail
    \/ LoadNeighborhoodOk \/ LoadNeighborhoodFail
    \/ LoadCensusOk \/ LoadCensusFail
    \/ LoadPredictionsOk \/ LoadPredictionsFail
    \/ LoadTemporalOk \/ LoadTemporalFail

\* The step of AllLoaded as the promises show it: Promise.all has settled and
\* the promise of initData settles with it.
Resolve ==
    \E r \in DOMAIN rounds :
        /\ rounds[r].promise = "pending"
        /\ AnyRejected(r) \/ AllSettled(r)
        /\ rounds' = [rounds EXCEPT
                         ![r].promise = IF AnyRejected(r) THEN "rejected" ELSE "resolved"]

\* While fetches are under way one of them settles in the end, and a settled
\* Promise.all has its callback run: the browser answers or fails every fetch
\* and its event loop leaves no ready callback waiting for ever.
Fairness == WF_vars(FetchStep) /\ WF_rounds(Resolve)

NextLoad == InitData \/ FetchStep \/ AllLoaded

SpecFair == Init /\ [][NextLoad]_vars /\ Fairness

----------------------------------------------------------------------------
(* SpecJoin: the then-callback of initData over bounded load results.  The *)
(* six loads have settled with values drawn from the sets below, and the   *)
(* callback joins them.                                                    *)

MaxSegments == 2

\* Sequences over a set, up to a length.
SeqsUpTo(S, n) == UNION {[1 .. k -> S] : k \in 0 .. n}

\* A road record: how it spells its key, and what it carries of its own.
JoinKeyParts == {EmptyObject, [SUBBLOCKKEY |-> "A1"], [SUBBLOCKKEY |-> "", SUBBLOK |-> "A2"]}
JoinOwnParts == {EmptyObject, [predicted |-> 45], [OBSERVED_COUNT |-> 100, predicted |-> 45],
                 [OBSERVED_COUNT |-> 0, predicted |-> 45]}
JoinSegmentProps == {k @@ o : k \in JoinKeyParts, o \in JoinOwnParts}

JoinGeometry(props) ==
    IF Has(props, "SUBBLOK")
    THEN MultiLineString(<< << <<10, 20>>, <<11, 21>> >>, << <<12, 22>>, <<13, 23>>, <<14, 24>> >> >>)
    ELSE LineString(<< <<10, 20>>, <<11, 21>>, <<12, 22>> >>)

JoinRoads ==
    {Collection([i \in DOMAIN ps |-> RoadFeature(i, ps[i], JoinGeometry(ps[i]))]) :
        ps \in SeqsUpTo(JoinSegmentProps, MaxSegments)}

JoinCounters ==
    {CounterFileLoaded(Collection(fs)) : fs \in
        {<<>>,
         << Feature(1, [SUBBLOCKKEY |-> "A1", cntr_ty |-> "AUTO", COUNT |-> 100]) >>,
         << Feature(1, [SUBBLOCKKEY |-> "A1"]) >>,
         << Feature(1, [Site_Nm |-> "A2", COUNTER_TYPE |-> "MANUAL", COUNT |-> 30]) >>}}

JoinPredictions ==
    {Rows(rs) : rs \in
        {<<>>,
         << (".pred" :> 80) @@ (".pred.1" :> 75) @@ [SUBBLOCKKEY |-> "A1"] >>,
         << (".pred" :> 0) @@ [SUBBLOCKKEY |-> "A1"] >>,
         << [SUBBLOCKKEY |-> "A2", predicted |-> 30, predicted_alt |-> 35] >>,
         << (".pred" :> 20) @@ [SUBBLOCKKEY |-> "A1", observed |-> 60] >>}}

JoinCensus ==
    {Collection(fs) : fs \in
        {<<>>,
         << Feature(1, [SUBBLOC |-> "A1", GEOID |-> "11001000100",
                        popltnE |-> 4000, mdn_ncE |-> 90000]) >>}}

InitJoin ==
    /\ dataState = InitialDataState
    /\ \E road \in JoinRoads, counter \in JoinCounters,
          predictions \in JoinPredictions, census \in JoinCensus :
          rounds = << [load |-> [l \in Loaders |->
                         Settled(CASE l = "road" -> road
                                   [] l = "counter" -> counter
                                   [] l = "neighborhood" -> defaultNeighborhoodData
                                   [] l = "census" -> census
                                   [] l = "predictions" -> predictions
                                   [] OTHER -> Undefined,
                                 IF l = "neighborhood" THEN "fallback" ELSE "file")],
                       promise |-> "pending"] >>
    /\ events = 0
    /\ returned = NoCall
    /\ remembered = NoCall
    /\ canonical = [road |-> Null, counter |-> Null]
    /\ loaded = Null
    /\ page = InitialPage

NextJoin == AllLoaded

SpecJoin == InitJoin /\ [][NextJoin]_vars

----------------------------------------------------------------------------
(* SpecLookup: the then-callback of initData over counter, prediction and  *)
(* census collections that repeat keys, lack keys, or name a counter by    *)
(* site only; one of the three collections is varied at a time.            *)

MaxRecords == 3

\* The two road segments the lookups are read for: one carries a census alias
\* of its own.
LookupRoads ==
    Collection(<<
        RoadFeature(1, [SUBBLOCKKEY |-> "A1", populationE |-> 1200],
                    LineString(<< <<10, 20>>, <<11, 21>>, <<12, 22>> >>)),
        RoadFeature(2, [SUBBLOCKKEY |-> "", SUBBLOK |-> "A2", median_incomeE |-> 60000],
                    LineString(<< <<10, 20>>, <<11, 21>> >>)) >>)

LookupCounterRecords ==
    {[SUBBLOCKKEY |-> "A1", cntr_ty |-> "AUTO", COUNT |-> 100],
     [Site_Nm |-> "A1", COUNTER_TYPE |-> "MANUAL", COUNT |-> 30],
     [Site_Nm |-> "A2", COUNT |-> 50],
     [cntr_ty |-> "AUTO", COUNT |-> 7]}

LookupPredictionRecords ==
    {(".pred" :> 80) @@ (".pred.1" :> 75) @@ [SUBBLOCKKEY |-> "A1"],
     (".pred" :> 0) @@ [SUBBLOCKKEY |-> "A1"],
     [SUBBLOCKKEY |-> "A2", predicted |-> 30],
     (".pred" :> 5) @@ EmptyObject}

LookupCensusRecords ==
    {[SUBBLOC |-> "A1", GEOID |-> "11001000100", popltnE |-> 4000, mdn_ncE |-> 90000],
     [SUBBLOC |-> "A1", popltnE |-> 5000],
     [SUBBLOC |-> "A2", popltnE |-> 800],
     [popltnE |-> 1]}

Features(records) == [i \in DOMAIN records |-> Feature(i, records[i])]

LookupScenarios ==
    {[counter |-> c, predictions |-> <<>>, census |-> <<>>] :
        c \in SeqsUpTo(LookupCounterRecords, MaxRecords)}
    \cup {[counter |-> <<>>, predictions |-> r, census |-> <<>>] :
        r \in SeqsUpTo(LookupPredictionRecords, MaxRecords)}
    \cup {[counter |-> <<>>, predictions |-> <<>>, census |-> c] :
        c \in SeqsUpTo(LookupCensusRecords, MaxRecords)}

InitLookup ==
    /\ dataState = InitialDataState
    /\ \E sc \in LookupScenarios :
          rounds = << [load |-> [l \in Loaders |->
                         Settled(CASE l = "road" -> LookupRoads
                                   [] l = "counter" ->
                                        CounterFileLoaded(Collection(Features(sc.counter)))
                                   [] l = "neighborhood" -> defaultNeighborhoodData
                                   [] l = "census" -> Collection(Features(sc.census))
                                   [] l = "predictions" -> Rows(sc.predictions)
                                   [] OTHER -> Undefined,
                                 IF l = "neighborhood" THEN "fallback" ELSE "file")],
                       promise |-> "pending"] >>
    /\ events = 0
    /\ returned = NoCall
    /\ remembered = NoCall
    /\ canonical = [road |-> Null, counter |-> Null]
    /\ loaded = Null
    /\ page = InitialPage

NextLookup == AllLoaded

SpecLookup == InitLookup /\ [][NextLookup]_vars

----------------------------------------------------------------------------
(* SpecStats: the then-callback of initData over road collections whose    *)
(* segments carry lengths, facility types, counts and census attributes;   *)
(* the counter, prediction and census collections are empty, so the        *)
(* statistics are computed from the segments' own fields.                  *)

MaxStatSegments == 3

\* Lengths are in hundredths of the unit of the source's sample data.
StatSegmentProps ==
    {[SUBBLOCKKEY |-> "A1", SEG_LEN |-> 25, BIKE_FT |-> "Protected", OBSERVED_COUNT |-> 100,
      predicted |-> 100, MEDIAN_INCOME |-> 60000, populationE |-> 1200],
     [SEG_LEN |-> 30, BIKE_FT |-> "None", OBSERVED_COUNT |-> 50, predicted |-> 0,
      MEDIAN_INCOME |-> 0],
     [SUBBLOCKKEY |-> "A2", SEG_LEN |-> 10, BIKE_FT |-> "Unknown", predicted |-> 30,
      median_incomeE |-> 40001],
     [segment_length |-> 15, bike_facility_type |-> "NA", predicted |-> 0],
     [segment_length |-> 20, bike_facility_type |-> "Shared", OBSERVED_COUNT |-> 40,
      commute_bicycleE |-> 12, EDUCATION |-> 300],
     [SUBBLOCKKEY |-> "A3", BIKE_FT |-> "Protected", OBSERVED_COUNT |-> 0, predicted |-> 45],
     EmptyObject,
     [SEG_LEN |-> 5, OBSERVED_COUNT |-> 80, predicted |-> 100, POPULATION |-> 0,
      BIKE_COMMUTE |-> 0, EDUCATION |-> 0]}

StatRoads ==
    {Collection([i \in DOMAIN ps |->
                    RoadFeature(i, ps[i], LineString(<< <<10, 20>>, <<11, 21>> >>))]) :
        ps \in SeqsUpTo(StatSegmentProps, MaxStatSegments)}

InitStats ==
    /\ dataState = InitialDataState
    /\ \E road \in StatRoads :
          rounds = << [load |-> [l \in Loaders |->
                         Settled(CASE l = "road" -> road
                                   [] l = "counter" -> CounterFileLoaded(Collection(<<>>))
                                   [] l = "neighborhood" -> defaultNeighborhoodData
                                   [] l = "census" -> Collection(<<>>)
                                   [] l = "predictions" -> Rows(<<>>)
                                   [] OTHER -> Undefined,
                                 IF l = "neighborhood" THEN "fallback" ELSE "file")],
                       promise |-> "pending"] >>
    /\ events = 0
    /\ returned = NoCall
    /\ remembered = NoCall
    /\ canonical = [road |-> Null, counter |-> Null]
    /\ loaded = Null
    /\ page = InitialPage

NextStats == AllLoaded

SpecStats == InitStats /\ [][NextStats]_vars

----------------------------------------------------------------------------
(* SpecTemporal: one round of initData whose other five loads have settled *)
(* on the built-in data; the temporal file is any sequence of rows drawn   *)
(* from TemporalRowChoices.                                                *)

MaxTemporalRows == 3

\* Rows of the parsed CSV: in range, with an hour past the end of the day,
\* without an hour, without a value, without a key.
TemporalRowChoices ==
    {[GEOID |-> Num(101), dotw |-> 1, hour |-> 8, hr_pred |-> 12],
     [GEOID |-> Num(101), dotw |-> 1, hour |-> 24, hr_pred |-> 5],
     [GEOID |-> Str("102"), dotw |-> 7, hour |-> 0, hr_pred |-> 0],
     [GEOID |-> Num(101), dotw |-> 2, hr_pred |-> 3],
     [GEOID |-> Num(101), dotw |-> 1, hour |-> 8],
     [GEOID |-> Num(102), dotw |-> 1, hour |-> 23, hr_pred |-> 7],
     [dotw |-> 1, hour |-> 3, hr_pred |-> 9]}

TemporalRowFiles == SeqsUpTo(TemporalRowChoices, MaxTemporalRows)

TemporalKeys == {Num(101), Str("102"), Undefined, Num(104)}

InitTemporal ==
    /\ dataState = InitialDataState
    /\ rounds = << [NewRound EXCEPT
                       !.load = [l \in Loaders |->
                           CASE l = "road" -> Settled(defaultRoadNetworkData, "fallback")
                             [] l = "counter" -> Settled(defaultCounterData, "fallback")
                             [] l = "neighborhood" -> Settled(defaultNeighborhoodData, "fallback")
                             [] l = "census" -> Settled(defaultCensusData, "fallback")
                             [] l = "predictions" -> Settled(defaultPredictionsData, "fallback")
                             [] OTHER -> @[l]]] >>
    /\ events = 0
    /\ returned = NoCall
    /\ remembered = NoCall
    /\ canonical = [road |-> Null, counter |-> Null]
    /\ loaded = Null
    /\ page = InitialPage

NextTemporal ==
    \/ LoadTemporalFrom(TemporalRowFiles)
    \/ LoadTemporalFail
    \/ AllLoaded
    \/ GetTemporalPredictionsForSegment(TemporalKeys)

SpecTemporal == InitTemporal /\ [][NextTemporal]_vars

----------------------------------------------------------------------------
(* SpecAgain: initData is called again while an earlier call is under way. *)
(* The earlier round has five loads settled on the built-in data and its    *)
(* temporal fetch still out.                                               *)

MaxPendingCalls == 2

InitDataAgain == InitDataUpTo(MaxPendingCalls)

NextAgain == InitDataAgain \/ FetchStep \/ AllLoaded

SpecAgain == InitTemporal /\ [][NextAgain]_vars

----------------------------------------------------------------------------
(* SpecPage: the page's DOMContentLoaded handler, the loads it starts, the *)
(* then-callback it attached to initData(), and clicks on the stats toggle.*)

MaxClicks == 2

\* The DOMContentLoaded handler: initData() with a then-callback attached, and
\* at its end setupUIListeners().
DomReady ==
    /\ ~page.ready
    /\ ~dataState.isInitialized
    /\ rounds' = Append(rounds, NewRound)
    /\ returned' = Call("initData", EmptyObject, [promise |-> "pending"])
    /\ page' = setupUIListeners([page EXCEPT !.ready = TRUE, !.then = "waiting"])
    /\ UNCHANGED <<dataState, events, remembered, canonical, loaded>>

\* The then-callback of the page on the resolved promise of initData: it calls
\* setupUIListeners() again.
PageThen ==
    /\ page.then = "waiting"
    /\ rounds[1].promise = "resolved"
    /\ page' = setupUIListeners([page EXCEPT !.then = "ran"])
    /\ UNCHANGED <<dataState, rounds, events, returned, remembered, canonical, loaded>>

\* One click on .stats-toggle: every listener registered on it runs.
Click ==
    /\ page.ready
    /\ page.clicks < MaxClicks
    /\ page' = [page EXCEPT !.clicks = @ + 1,
                            !.before = page.expanded,
                            !.expanded = ToggleTimes(@, page.listeners)]
    /\ UNCHANGED <<dataState, rounds, events, returned, remembered, canonical, loaded>>

NextPage == DomReady \/ FetchStep \/ AllLoaded \/ PageThen \/ Click

SpecPage == Init /\ [][NextPage]_vars

----------------------------------------------------------------------------
(* SpecFilter: the filter queries over a loaded store.  The store is what  *)
(* the then-callback of initData leaves for bounded load results.          *)

MaxStoreSegments == 3

\* Road records of the store: counts on both sides of the category edges,
\* with and without a neighbourhood, a counter type, a key.
StoreSegmentProps ==
    {[NEIGHBORHOOD |-> "Downtown", OBSERVED_COUNT |-> 5],
     [NEIGHBORHOOD |-> "Capitol Hill", predicted |-> 35],
     [SUBBLOCKKEY |-> "A1", NEIGHBORHOOD |-> "Downtown"],
     [OBSERVED_COUNT |-> 50, predicted |-> 9, COUNTER_TYPE |-> "MANUAL"]}

StoreCounters ==
    CounterFileLoaded(Collection(<<
        Feature(1, [SUBBLOCKKEY |-> "A1", cntr_ty |-> "AUTO", COUNT |-> 85,
                    NEIGHBORHOOD |-> "Downtown"]),
        Feature(2, [Site_Nm |-> "A2", COUNTER_TYPE |-> "MANUAL", COUNT |-> 30]) >>))

StorePredictions == Rows(<< (".pred" :> 85) @@ [SUBBLOCKKEY |-> "A1"] >>)

StoreValues(ps) ==
    [l \in Loaders |->
        CASE l = "road" -> Collection([i \in DOMAIN ps |->
                               RoadFeature(i, ps[i], JoinGeometry(ps[i]))])
          [] l = "counter" -> StoreCounters
          [] l = "neighborhood" -> defaultNeighborhoodData
          [] l = "census" -> defaultCensusData
          [] l = "predictions" -> StorePredictions
          [] OTHER -> Undefined]

\* The state once initData has resolved over road records ps.
Loaded(ps) ==
    \E fills \in FillChoices(StoreValues(ps)), parsed \in TemporalFiles :
        LET values == StoreValues(ps)
            ds     == HandlerResult(
                         [InitialDataState EXCEPT !.temporalPredictions =
                             TemporalTableUpTo(parsed, Len(parsed))],
                         values, fills)
        IN  /\ dataState = ds
            /\ rounds = << [load |-> [l \in Loaders |-> Settled(values[l], "file")],
                            promise |-> "resolved"] >>
            /\ events = 1
            /\ returned = NoCall
            /\ remembered = NoCall
            /\ canonical = [road |-> ds.roadNetworkData, counter |-> ds.counterPointsData]
            /\ loaded = [round |-> 1, values |-> values]
            /\ page = InitialPage

StoreVolumes ==
    {AllVolumes, OneVolume("low"), OneVolume("medium-high"),
     VolumeList(<<"high", "low">>), VolumeList(<<"medium", "medium-low">>),
     VolumeList(<<>>)}

StoreFilters ==
    {[neighborhood |-> n, counterType |-> "all", volumeFilter |-> v, viewType |-> w] :
        n \in {"all", "Downtown"}, v \in StoreVolumes, w \in {"combined", "predicted"}}
    \cup
    {[neighborhood |-> n, counterType |-> "AUTO", volumeFilter |-> AllVolumes,
      viewType |-> "combined"] : n \in {"all", "Downtown"}}
    \cup
    {[neighborhood |-> "all", counterType |-> "all", volumeFilter |-> v,
      viewType |-> "observed"] :
        v \in {OneVolume("low"), VolumeList(<<"medium", "medium-low">>)}}

InitFilter == \E ps \in SeqsUpTo(StoreSegmentProps, MaxStoreSegments) : Loaded(ps)

NextFilter ==
    \/ GetFilteredRoadData(StoreFilters, {FALSE})
    \/ GetFilteredCounterData(StoreFilters, {FALSE})
    \/ CallerWrites

SpecFilter == InitFilter /\ [][NextFilter]_vars

----------------------------------------------------------------------------
(* SpecIdem: all four queries over a loaded store, one filter call kept    *)
(* for comparison with the calls after it.                                 *)

MaxIdemSegments == 2

InitIdem == \E ps \in SeqsUpTo(StoreSegmentProps, MaxIdemSegments) : Loaded(ps)

NextIdem ==
    \/ GetFilteredRoadData(PageFilters, BOOLEAN)
    \/ GetFilteredCounterData(PageFilters, BOOLEAN)
    \/ GetTemporalPredictionsForSegment(PageKeys)
    \/ CompareWithAverage
    \/ CallerWrites

SpecIdem == InitIdem /\ [][NextIdem]_vars

----------------------------------------------------------------------------
(* SpecBuckets: isInVolumeCategory applied to counts and category names.   *)

MaxCount == 100

VolumeCategories == {"high", "medium-high", "medium", "medium-low", "low"}

IsInVolumeCategory ==
    /\ \E count \in 0 .. MaxCount, category \in VolumeCategories \cup {"all"} :
          returned' = Call("isInVolumeCategory",
                           [count |-> count, category |-> category],
                           [result |-> isInVolumeCategory(count, category)])
    /\ UNCHANGED <<dataState, rounds, events, remembered, canonical, loaded, page>>

NextBuckets == IsInVolumeCategory

SpecBuckets == Init /\ [][NextBuckets]_vars

----------------------------------------------------------------------------
(* Properties                                                              *)

\* The stored road features once a then-callback has run.
Joined == IF dataState.isInitialized /\ HasFeatures(dataState.roadNetworkData)
          THEN dataState.roadNetworkData.features ELSE <<>>

\* C1: after the join, every road segment has a residual if and only if it has
\* both an observed count and a predicted value, zero values included.
C1_ResidualIffBoth ==
    \A i \in DOMAIN Joined :
        Has(Joined[i].properties, "residual")
            <=> (Has(Joined[i].properties, "OBSERVED_COUNT")
                 /\ Has(Joined[i].properties, "predicted"))

TrafficLevels == {"high", "medium", "low"}

\* C2: after the join, every road segment has a traffic_level among high,
\* medium, low if and only if it has a predicted value, 0 giving low.
C2_TrafficLevelIffPredicted ==
    \A i \in DOMAIN Joined :
        LET props == Joined[i].properties IN
        /\ Has(props, "traffic_level") <=> Has(props, "predicted")
        /\ Has(props, "traffic_level") => props["traffic_level"] \in TrafficLevels
        /\ (Has(props, "predicted") /\ props["predicted"] = 0)
               => (Has(props, "traffic_level") /\ props["traffic_level"] = "low")

\* C4: the join keeps every road segment in its place, and a segment with no
\* resolvable key keeps exactly the properties it was loaded with.
C4_JoinKeepsSegments ==
    dataState.isInitialized /\ HasFeatures(dataState.roadNetworkData) =>
        /\ Len(dataState.roadNetworkData.features) = Len(loaded.values["road"].features)
        /\ \A i \in DOMAIN loaded.values["road"].features :
              LET before == loaded.values["road"].features[i]
                  after  == dataState.roadNetworkData.features[i]
              IN  /\ after.id = before.id
                  /\ after.geometry = before.geometry
                  /\ (~TruthyStr(before.properties, "SUBBLOCKKEY")
                      /\ ~TruthyStr(before.properties, "SUBBLOK"))
                         => after.properties = before.properties

\* C4 witness: a joined collection in which a segment without a key follows a
\* segment that the join enriched.
C4_Witness ==
    /\ dataState.isInitialized
    /\ Len(Joined) = 2
    /\ Has(Joined[1].properties, "DEGREE")
    /\ Has(Joined[1].properties, "lat")
    /\ SubblockKey(Joined[2].properties) = ""
    /\ Has(Joined[2].properties, "predicted")
    /\ Joined[2].properties = loaded.values["road"].features[2].properties

FilterCalls == {"getFilteredRoadData", "getFilteredCounterData"}

\* C3: through any sequence of filter calls and of caller writes to what they
\* returned, both stored collections stay as the then-callback left them, and
\* what a call returns shares no object with the store.
C3_FilterLeavesStore ==
    /\ dataState.roadNetworkData = canonical.road
    /\ dataState.counterPointsData = canonical.counter
    /\ (returned.call \in FilterCalls /\ HasFeatures(returned.value)) =>
          /\ returned.value.ref = "copy"
          /\ \A i \in DOMAIN returned.value.features :
                returned.value.features[i].ref = "copy"

\* C3 witness: a road query returned fewer segments than are stored, the caller
\* wrote to one of them, and the store has all its segments, none written.
C3_Witness ==
    /\ returned.call = "getFilteredRoadData"
    /\ returned.touched
    /\ Len(returned.value.features) = 1
    /\ Has(returned.value.features[1].properties, "marked")
    /\ Len(dataState.roadNetworkData.features) = 3
    /\ \A i \in 1 .. 3 : ~Has(dataState.roadNetworkData.features[i].properties, "marked")
    /\ dataState.roadNetworkData = canonical.road

\* The ranges of the five categories as the specification states them.
InBucket(c, b) ==
    \/ b = "high" /\ c >= 80
    \/ b = "medium-high" /\ 50 <= c /\ c < 80
    \/ b = "medium" /\ 30 <= c /\ c < 50
    \/ b = "medium-low" /\ 10 <= c /\ c < 30
    \/ b = "low" /\ c < 10

\* C8: for every count, isInVolumeCategory answers true for a category exactly
\* when the count is in that category's stated range, and so for exactly one
\* of the five categories.
C8_BucketsPartition ==
    returned.call = "isInVolumeCategory" =>
        LET c == returned.args.count
            b == returned.args.category
        IN  /\ b \in VolumeCategories => (returned.value.result <=> InBucket(c, b))
            /\ Cardinality({x \in VolumeCategories : isInVolumeCategory(c, x)}) = 1
            /\ Cardinality({x \in VolumeCategories : InBucket(c, x)}) = 1

\* C8 witness: the count 80 was asked about and is high.
C8_Witness ==
    /\ returned.call = "isInVolumeCategory"
    /\ returned.args = [count |-> 80, category |-> "high"]
    /\ returned.value.result
    /\ ~isInVolumeCategory(80, "medium-high")
    /\ isInVolumeCategory(9, "low")

\* A feature without its object identity.
Plain(features) ==
    [i \in DOMAIN features |->
        [id |-> features[i].id, properties |-> features[i].properties,
         geometry |-> features[i].geometry]]

Names(list) == {list[i] : i \in DOMAIN list}

\* C9: with a list of category names as volumeFilter and no other filter, a
\* road query returns the stored segments whose selected count is in one of
\* the named categories, in stored order; over combined counts 5, 35, 85 the
\* list high, low returns the first and the third segment.
C9_VolumeListSelects ==
    (/\ returned.call = "getFilteredRoadData"
     /\ ~returned.touched
     /\ returned.args.volumeFilter.isArray
     /\ returned.args.neighborhood = "all"
     /\ returned.args.counterType = "all") =>
        LET filters  == returned.args
            stored   == dataState.roadNetworkData.features
            Named(f) == \E b \in Names(filters.volumeFilter.value) :
                           InBucket(getCountForFeature(f, filters), b)
            counts   == [i \in DOMAIN stored |-> getCountForFeature(stored[i], filters)]
        IN  /\ Plain(returned.value.features) = Plain(SelectSeq(stored, Named))
            /\ (/\ counts = <<5, 35, 85>>
                /\ filters.viewType = "combined"
                /\ filters.volumeFilter.value = <<"high", "low">>) =>
                   [i \in DOMAIN returned.value.features |->
                       returned.value.features[i].id] = <<1, 3>>

\* C9 witness: the list high, low was asked over combined counts 5, 35, 85 and
\* two segments came back.
C9_Witness ==
    /\ returned.call = "getFilteredRoadData"
    /\ ~returned.touched
    /\ returned.args.volumeFilter.isArray
    /\ returned.args.volumeFilter.value = <<"high", "low">>
    /\ returned.args.neighborhood = "all"
    /\ returned.args.counterType = "all"
    /\ returned.args.viewType = "combined"
    /\ [i \in DOMAIN dataState.roadNetworkData.features |->
           getCountForFeature(dataState.roadNetworkData.features[i], returned.args)]
          = <<5, 35, 85>>
    /\ Len(returned.value.features) = 2

SameFilters(a, b) ==
    /\ a.neighborhood = b.neighborhood
    /\ a.counterType = b.counterType
    /\ a.viewType = b.viewType
    /\ a.volumeFilter.isArray = b.volumeFilter.isArray
    /\ a.volumeFilter.value = b.volumeFilter.value

\* C10: a filter call returns what an earlier call of the same query with the
\* same filters returned, whatever queries ran between the two.
C10_SameFiltersSameResult ==
    (/\ remembered.call \in FilterCalls
     /\ returned.call = remembered.call
     /\ ~returned.touched
     /\ SameFilters(returned.args, remembered.args)) =>
        returned.value = remembered.value

\* C10 witness: a road query was repeated with its filters after other queries,
\* a neighbourhood named, and some but not all stored segments came back.
C10_Witness ==
    /\ remembered.call = "getFilteredRoadData"
    /\ remembered.later = "more"
    /\ returned.call = "getFilteredRoadData"
    /\ ~returned.touched
    /\ SameFilters(returned.args, remembered.args)
    /\ returned.args.neighborhood = "Downtown"
    /\ Len(returned.value.features) = 1
    /\ Len(dataState.roadNetworkData.features) = 2

\* What each loader resolves to from its catch.
FallbackOf(l) ==
    CASE l = "road" -> defaultRoadNetworkData
      [] l = "counter" -> defaultCounterData
      [] l = "neighborhood" -> defaultNeighborhoodData
      [] l = "census" -> defaultCensusData
      [] l = "predictions" -> defaultPredictionsData
      [] OTHER -> Undefined

\* C5: no loader promise and no initData promise is ever rejected; a loader
\* that failed holds its fallback dataset; and when the then-callback ran on a
\* round whose road fetches both failed, that round's promise is resolved and
\* the stored road collection has the segments of the built-in default one.
C5_LoaderFailureFallsBack ==
    /\ \A r \in DOMAIN rounds :
          /\ rounds[r].promise # "rejected"
          /\ \A l \in Loaders :
                /\ rounds[r].load[l].state # "rejected"
                /\ rounds[r].load[l].source = "fallback"
                      => /\ rounds[r].load[l].state = "settled"
                         /\ rounds[r].load[l].value = FallbackOf(l)
    /\ (\A r \in DOMAIN rounds : rounds[r].load["temporal"].source = "fallback")
          => dataState.temporalPredictions = EmptyObject
    /\ (~IsNull(loaded) /\ rounds[loaded.round].load["road"].source = "fallback") =>
          LET stored   == dataState.roadNetworkData.features
              defaults == defaultRoadNetworkData.features
          IN  /\ rounds[loaded.round].promise = "resolved"
              /\ dataState.isInitialized
              /\ Len(stored) = Len(defaults)
              /\ Len(stored) > 0
              /\ \A i \in DOMAIN defaults :
                    /\ stored[i].id = defaults[i].id
                    /\ stored[i].geometry = defaults[i].geometry
                    /\ stored[i].properties["SUBBLOCKKEY"] = defaults[i].properties["SUBBLOCKKEY"]
                    /\ stored[i].properties["FULLNAME"] = defaults[i].properties["FULLNAME"]

\* C5 witness: both road fetches and the census fetch failed, the counter file
\* loaded, and initData resolved with the default road segments stored.
C5_Witness ==
    /\ Len(rounds) = 1
    /\ rounds[1].promise = "resolved"
    /\ rounds[1].load["road"].source = "fallback"
    /\ rounds[1].load["census"].source = "fallback"
    /\ rounds[1].load["counter"].source = "file"
    /\ dataState.isInitialized
    /\ Len(dataState.roadNetworkData.features) = 2
    /\ dataState.roadNetworkData.features[1].properties["SUBBLOCKKEY"] = "sample_road_1"
    /\ dataState.counterPointsData.features[1].properties["SUBBLOCKKEY"] = "101"

\* C6: every round has all six loads under way from its first state; a round
\* is resolved, the store filled, the statistics computed, isInitialized set
\* and data:loaded dispatched only once all six loads of a round have settled,
\* and the callback worked on the six settled values.
C6_PipelineAfterAllLoads ==
    /\ \A r \in DOMAIN rounds :
          /\ \A l \in Loaders :
                rounds[r].load[l].state \in {"fetching", "backup", "settled"}
          /\ rounds[r].promise = "resolved"
                => \A l \in Loaders : rounds[r].load[l].state = "settled"
    /\ events = Cardinality({r \in DOMAIN rounds : rounds[r].promise = "resolved"})
    /\ IsNull(loaded) <=> events = 0
    /\ dataState.isInitialized <=> events > 0
    /\ events = 0 =>
          /\ IsNull(dataState.roadNetworkData)
          /\ IsNull(dataState.counterPointsData)
          /\ IsNull(dataState.neighborhoodBoundaries)
          /\ IsNull(dataState.censusData)
          /\ IsNull(dataState.predictionsData)
          /\ dataState.statistics = InitialStatistics
          /\ dataState.neighborhoodsList = <<>>
    /\ ~IsNull(loaded) =>
          /\ rounds[loaded.round].promise = "resolved"
          /\ \A l \in Loaders :
                /\ rounds[loaded.round].load[l].state = "settled"
                /\ loaded.values[l] = rounds[loaded.round].load[l].value

\* C6 witness: the road load settled through its backup path, the other five
\* from their files, and the callback ran once over the six values.
C6_Witness ==
    /\ Len(rounds) = 1
    /\ rounds[1].promise = "resolved"
    /\ rounds[1].load["road"].source = "backup"
    /\ \A l \in Loaders \ {"road"} : rounds[1].load[l].source = "file"
    /\ events = 1
    /\ dataState.isInitialized
    /\ HasFeatures(dataState.roadNetworkData)
    /\ Has(dataState.roadNetworkData.features[1].properties, "lat")
    /\ dataState.statistics.busyHours = BusyHours

OneLoad ==
    LET SameFeatures(stored, given) ==
            IF HasFeatures(given)
            THEN /\ Len(stored.features) = Len(given.features)
                 /\ \A i \in DOMAIN given.features :
                       stored.features[i].id = given.features[i].id
            ELSE stored = given
    IN  /\ SameFeatures(dataState.roadNetworkData, loaded.values["road"])
        /\ SameFeatures(dataState.counterPointsData, loaded.values["counter"])
        /\ dataState.censusData = loaded.values["census"]
        /\ dataState.predictionsData = loaded.values["predictions"]
        /\ dataState.neighborhoodBoundaries = loaded.values["neighborhood"]
        /\ dataState.temporalPredictions \in
              {EmptyObject} \cup {TemporalTableUpTo(f, Len(f)) : f \in TemporalFiles}
        /\ dataState.statistics = calculateStatistics(dataState)

\* C11: once initialized, the data state holds one load's data, and a further
\* initData call answers with the resolved promise and changes neither the
\* data state nor the loads.
C11_ReinitKeepsOneLoad ==
    /\ [](dataState.isInitialized => OneLoad)
    /\ [][(dataState.isInitialized /\ returned' # returned /\ returned'.call = "initData") =>
             /\ returned'.value = [promise |-> "resolved"]
             /\ dataState' = dataState
             /\ rounds' = rounds
             /\ events' = events]_vars

\* C11 witness: initData was called again after a load of two road segments
\* and a filled temporal table, and answered with the resolved promise.
C11_Witness ==
    /\ dataState.isInitialized
    /\ returned.call = "initData"
    /\ returned.value = [promise |-> "resolved"]
    /\ Len(rounds) = 1
    /\ events = 1
    /\ Len(dataState.roadNetworkData.features) = 2
    /\ dataState.temporalPredictions # EmptyObject

\* The road features as the last then-callback received them.
Given == IF ~IsNull(loaded) /\ HasFeatures(loaded.values["road"])
         THEN loaded.values["road"].features ELSE <<>>

\* The rows of the loaded prediction table that carry key.
RowsOf(key) ==
    LET rows == loaded.values["predictions"].rows
    IN  {n \in DOMAIN rows : Has(rows[n], "SUBBLOCKKEY") /\ rows[n]["SUBBLOCKKEY"] = key}

\* The prediction the table holds for key: the cell of its last row.
PredictionOf(key) ==
    LET rows == loaded.values["predictions"].rows
        n    == CHOOSE m \in RowsOf(key) : \A k \in RowsOf(key) : k <= m
    IN  IF Has(rows[n], ".pred") THEN rows[n][".pred"] ELSE rows[n]["predicted"]

\* C12: a keyed segment with no row in the prediction table and no predicted
\* field of its own has no predicted field after the join, and one whose row
\* predicts exactly 0 has predicted = 0.
C12_NoOutputIsNotZero ==
    \A i \in DOMAIN Joined :
        LET before == Given[i].properties
            after  == Joined[i].properties
            key    == IF Has(before, "SUBBLOCKKEY") /\ before["SUBBLOCKKEY"] # ""
                      THEN before["SUBBLOCKKEY"]
                      ELSE IF Has(before, "SUBBLOK") THEN before["SUBBLOK"] ELSE ""
        IN  key # "" =>
               /\ (RowsOf(key) = {} /\ ~Has(before, "predicted")) => ~Has(after, "predicted")
               /\ (RowsOf(key) # {} /\ PredictionOf(key) = 0)
                      => (Has(after, "predicted") /\ after["predicted"] = 0)

\* C12 witness: of two keyed segments the first has a row predicting 0 and
\* the second has no row; the first has predicted 0, the second none.
C12_Witness ==
    /\ Len(Joined) = 2
    /\ RowsOf("A1") # {}
    /\ RowsOf("A2") = {}
    /\ Given[1].properties = [SUBBLOCKKEY |-> "A1"]
    /\ Given[2].properties = [SUBBLOCKKEY |-> "", SUBBLOK |-> "A2"]
    /\ Has(Joined[1].properties, "predicted")
    /\ Joined[1].properties["predicted"] = 0
    /\ ~Has(Joined[2].properties, "predicted")
    /\ Has(Joined[2].properties, "DEGREE")

\* C13: a joined segment has a percent_error only with an observed count other
\* than 0 and a predicted value, the quotient then being finite; a segment
\* with observed count exactly 0 and a predicted value has a residual and no
\* percent_error.
C13_PercentErrorNeedsObserved ==
    \A i \in DOMAIN Joined :
        LET props == Joined[i].properties IN
        /\ Has(props, "percent_error") =>
              /\ Has(props, "OBSERVED_COUNT") /\ props["OBSERVED_COUNT"] # 0
              /\ Has(props, "predicted")
              /\ props["percent_error"].den # 0
        /\ (SubblockKey(Given[i].properties) # ""
            /\ Has(props, "OBSERVED_COUNT") /\ props["OBSERVED_COUNT"] = 0
            /\ Has(props, "predicted")) =>
              (Has(props, "residual") /\ ~Has(props, "percent_error"))

\* props.f is there and is v.
Is(props, f, v) == Has(props, f) /\ props[f] = v

Counters == IF dataState.isInitialized /\ HasFeatures(dataState.counterPointsData)
            THEN dataState.counterPointsData.features ELSE <<>>

\* The name a counter record is indexed under: its segment key, else its site
\* name, else none ("").
KeyOfCounter(props) == IF Is(props, "SUBBLOCKKEY", "") \/ ~Has(props, "SUBBLOCKKEY") THEN "" ELSE props["SUBBLOCKKEY"]
SiteOfCounter(props) == IF Is(props, "Site_Nm", "") \/ ~Has(props, "Site_Nm") THEN "" ELSE props["Site_Nm"]
NameOfCounter(props) == IF KeyOfCounter(props) # "" THEN KeyOfCounter(props) ELSE SiteOfCounter(props)

TypeOfCounter(props) ==
    IF Has(props, "COUNTER_TYPE") /\ props["COUNTER_TYPE"] # "" THEN props["COUNTER_TYPE"]
    ELSE IF Has(props, "cntr_ty") /\ props["cntr_ty"] # "" THEN props["cntr_ty"]
    ELSE "UNKNOWN"

\* C15: a stored counter without a segment key but with a site name, no later
\* counter being indexed under that name, is found in the counter lookup under
\* its site name with its count and type; the lookup has no other names than
\* the keys and site names of the counters, and every loaded counter is still
\* in the stored collection.
C15_SiteNameFallback ==
    dataState.isInitialized =>
        LET lookup == createCounterLookup(dataState.counterPointsData)
            before == loaded.values["counter"].features
        IN  /\ \A i \in DOMAIN Counters :
                  LET props == Counters[i].properties
                      name  == SiteOfCounter(props)
                  IN  (/\ KeyOfCounter(props) = ""
                       /\ name # ""
                       /\ \A j \in DOMAIN Counters :
                             j > i => NameOfCounter(Counters[j].properties) # name) =>
                         /\ Has(lookup, name)
                         /\ lookup[name].OBSERVED_COUNT = props["COUNT"]
                         /\ lookup[name].COUNTER_TYPE = TypeOfCounter(props)
            /\ DOMAIN lookup =
                  {NameOfCounter(Counters[i].properties) : i \in DOMAIN Counters} \ {""}
            /\ Len(Counters) = Len(before)
            /\ \A i \in DOMAIN before :
                  /\ Counters[i].id = before[i].id
                  /\ \A f \in DOMAIN before[i].properties \ {"COUNT", "OBSERVED_COUNT"} :
                        Is(Counters[i].properties, f, before[i].properties[f])

\* C15 witness: a counter named by site A2 only and a counter with neither
\* key nor site name were loaded; both are stored, the lookup has A2 alone,
\* and segment A2 carries the first counter's count.
C15_Witness ==
    /\ Len(Counters) = 2
    /\ NameOfCounter(Counters[1].properties) = ""
    /\ KeyOfCounter(Counters[2].properties) = ""
    /\ SiteOfCounter(Counters[2].properties) = "A2"
    /\ DOMAIN createCounterLookup(dataState.counterPointsData) = {"A2"}
    /\ Len(Joined) = 2
    /\ Is(Joined[2].properties, "OBSERVED_COUNT", 50)
    /\ Is(Joined[2].properties, "COUNTER_TYPE", "UNKNOWN")

\* C16: initData resolves, and the state is flagged initialized, only with a
\* road collection that has a features list; without one the promise is
\* rejected.
C16_NoSegmentsRejects ==
    /\ \A r \in DOMAIN rounds :
          /\ rounds[r].promise = "resolved" => HasFeatures(rounds[r].load["road"].value)
          /\ (/\ \A l \in Loaders : rounds[r].load[l].state = "settled"
              /\ ~HasFeatures(rounds[r].load["road"].value)) =>
                 rounds[r].promise # "resolved"
    /\ dataState.isInitialized => HasFeatures(dataState.roadNetworkData)

\* The stored counters that carry segment key k.
KeyedCounters(k) == {j \in DOMAIN Counters : KeyOfCounter(Counters[j].properties) = k}

\* C17: a joined segment whose key is the segment key of some counter carries
\* the count and type of the last counter with that segment key, whatever
\* counters are named by an equal site name; in the lookup a counter indexed
\* by site name and one indexed by an equal segment key do not replace each
\* other.
C17_KeySpacesApart ==
    \A i \in DOMAIN Joined :
        LET k == SubblockKey(Given[i].properties) IN
        (k # "" /\ KeyedCounters(k) # {}) =>
            LET j == CHOOSE m \in KeyedCounters(k) : \A n \in KeyedCounters(k) : n <= m
            IN  /\ Is(Joined[i].properties, "OBSERVED_COUNT", Counters[j].properties["COUNT"])
                /\ Is(Joined[i].properties, "COUNTER_TYPE", TypeOfCounter(Counters[j].properties))

\* The last index of a sequence of names that holds name.
LastOf(names, name) ==
    CHOOSE m \in DOMAIN names : names[m] = name /\ \A n \in DOMAIN names : names[n] = name => n <= m

\* A field of a record that is a string, "" when absent.
Text(props, f) == IF Has(props, f) THEN props[f] ELSE ""

\* C18: each of the three lookups built from the stored collections has, for
\* every key, the entry of the last record with that key, and has the keys of
\* the records and no others.
C18_LastRecordWins ==
    dataState.isInitialized =>
        LET rows      == dataState.predictionsData.rows
            rowKeys   == [n \in DOMAIN rows |-> Text(rows[n], "SUBBLOCKKEY")]
            predicted == createPredictedLookup(dataState.predictionsData)
            counterKeys == [n \in DOMAIN Counters |-> NameOfCounter(Counters[n].properties)]
            counter   == createCounterLookup(dataState.counterPointsData)
            tracts    == dataState.censusData.features
            tractKeys == [n \in DOMAIN tracts |-> Text(tracts[n].properties, "SUBBLOC")]
            census    == createCensusLookup(dataState.censusData)
        IN  /\ DOMAIN predicted = {rowKeys[n] : n \in DOMAIN rows} \ {""}
            /\ \A k \in DOMAIN predicted :
                  predicted[k] = PredictedEntry(rows[LastOf(rowKeys, k)])
            /\ DOMAIN counter = {counterKeys[n] : n \in DOMAIN Counters} \ {""}
            /\ \A k \in DOMAIN counter :
                  counter[k] = CounterEntry(Counters[LastOf(counterKeys, k)].properties)
            /\ DOMAIN census = {tractKeys[n] : n \in DOMAIN tracts} \ {""}
            /\ \A k \in DOMAIN census :
                  census[k] = CensusEntry(tracts[LastOf(tractKeys, k)].properties)

\* C18 witness: the prediction table has three rows for A1, predicting 0, 80
\* and 0 again, and segment A1 carries the last one.
C18_Witness ==
    /\ dataState.isInitialized
    /\ Len(dataState.predictionsData.rows) = 3
    /\ \A n \in 1 .. 3 : Is(dataState.predictionsData.rows[n], "SUBBLOCKKEY", "A1")
    /\ Is(dataState.predictionsData.rows[1], ".pred", 0)
    /\ Is(dataState.predictionsData.rows[2], ".pred", 80)
    /\ Is(dataState.predictionsData.rows[3], ".pred", 0)
    /\ createPredictedLookup(dataState.predictionsData)["A1"].predicted = 0
    /\ Is(Joined[1].properties, "predicted", 0)
    /\ Is(Joined[1].properties, "predicted_alt", 0)

\* The census lookup built from the stored census tracts.
CensusLookup == createCensusLookup(dataState.censusData)

\* C19: a joined segment whose key is in the census lookup has, for each of
\* the six census attributes the lookup's entry holds, the entry's value; the
\* segment's own alias field does not displace it.
C19_LookupBeforeAlias ==
    \A i \in DOMAIN Joined :
        LET k == SubblockKey(Given[i].properties) IN
        Has(CensusLookup, k) =>
            \A n \in DOMAIN CensusAliasMap :
                LET f == CensusAliasMap[n][1] IN
                Has(CensusLookup[k], f) => Is(Joined[i].properties, f, CensusLookup[k][f])

\* The counter features as the last then-callback received them.
GivenCounters == IF ~IsNull(loaded) /\ HasFeatures(loaded.values["counter"])
                 THEN loaded.values["counter"].features ELSE <<>>

\* C20: a counter that was loaded with a count is stored with that count as
\* COUNT and OBSERVED_COUNT, and the segment of its key is joined with it.
C20_CounterKeepsItsCount ==
    dataState.isInitialized =>
        \A c \in DOMAIN GivenCounters :
            TruthyNum(GivenCounters[c].properties, "COUNT") =>
                LET count == GivenCounters[c].properties["COUNT"]
                    k     == NameOfCounter(GivenCounters[c].properties)
                IN  /\ Is(Counters[c].properties, "COUNT", count)
                    /\ Is(Counters[c].properties, "OBSERVED_COUNT", count)
                    /\ \A i \in DOMAIN Joined :
                          (k # "" /\ SubblockKey(Given[i].properties) = k) =>
                              Is(Joined[i].properties, "OBSERVED_COUNT", count)

\* The sum of a number per stored segment, over the segments of a set.
RECURSIVE SumOver(_, _)
SumOver(S, term) ==
    IF S = {} THEN 0
    ELSE LET i == CHOOSE j \in S : TRUE IN term[i] + SumOver(S \ {i}, term)

\* A field of a record that is a number, 0 when absent.
Number(props, f) == IF Has(props, f) THEN props[f] ELSE 0

\* The length and the facility type of a stored segment, under either spelling.
LengthOf(props) ==
    IF Number(props, "SEG_LEN") # 0 THEN props["SEG_LEN"] ELSE Number(props, "segment_length")

FacilityOf(props) ==
    IF Text(props, "BIKE_FT") # "" THEN props["BIKE_FT"] ELSE Text(props, "bike_facility_type")

\* C21: bikeLaneCoverage is the length of the segments whose facility type is
\* not None, Unknown or empty over the total length, times 100 and rounded, 0
\* when the total length is 0, and lies in 0 .. 100.
C21_BikeLaneCoverage ==
    dataState.isInitialized =>
        LET length  == [i \in DOMAIN Joined |-> LengthOf(Joined[i].properties)]
            covered == {i \in DOMAIN Joined :
                           FacilityOf(Joined[i].properties) \notin {"None", "Unknown", ""}}
            total   == SumOver(DOMAIN Joined, length)
        IN  /\ dataState.statistics.bikeLaneCoverage =
                  IF total = 0 THEN 0 ELSE Round(SumOver(covered, length) * 100, total)
            /\ dataState.statistics.bikeLaneCoverage \in 0 .. 100

\* The value a stored segment has for a census attribute: the upper-case
\* field, or its alias when that is 0 or absent.
AttributeOf(props, f, alias) ==
    IF Number(props, f) # 0 THEN props[f] ELSE Number(props, alias)

\* The mean of an attribute over the stored segments where it is not 0, rounded;
\* 0 when there is no such segment.
MeanOfPresent(f, alias) ==
    LET value   == [i \in DOMAIN Joined |-> AttributeOf(Joined[i].properties, f, alias)]
        present == {i \in DOMAIN Joined : value[i] # 0}
    IN  IF present = {} THEN 0
        ELSE Round(SumOver(present, value), Cardinality(present))

\* The stored segments that have some census attribute that is not 0.
WithAttribute ==
    SelectSeq(Joined, LAMBDA feature :
        \/ AttributeOf(feature.properties, "MEDIAN_INCOME", "median_incomeE") # 0
        \/ AttributeOf(feature.properties, "POPULATION", "populationE") # 0
        \/ AttributeOf(feature.properties, "BIKE_COMMUTE", "commute_bicycleE") # 0
        \/ AttributeOf(feature.properties, "EDUCATION", "edu_bachelors_plusE") # 0)

\* C22: each of the four averages is the rounded mean over exactly the segments
\* whose field is present and not 0, is 0 when there is none, and is what the
\* statistics give with every segment that has no such field left out.
C22_AveragesSkipZero ==
    dataState.isInitialized =>
        LET stats == dataState.statistics
            fewer == StatisticsOf(WithAttribute)
        IN  /\ stats.averageIncome = MeanOfPresent("MEDIAN_INCOME", "median_incomeE")
            /\ stats.averagePopulation = MeanOfPresent("POPULATION", "populationE")
            /\ stats.averageBikeCommute = MeanOfPresent("BIKE_COMMUTE", "commute_bicycleE")
            /\ stats.averageEducation = MeanOfPresent("EDUCATION", "edu_bachelors_plusE")
            /\ stats.averageIncome = fewer.averageIncome
            /\ stats.averagePopulation = fewer.averagePopulation
            /\ stats.averageBikeCommute = fewer.averageBikeCommute
            /\ stats.averageEducation = fewer.averageEducation

\* C22 witness: three segments with incomes 60000, 0 and 40001; the average is
\* the mean of the two that are not 0, rounded up from 50000.5.
C22_Witness ==
    /\ dataState.isInitialized
    /\ Len(Joined) = 3
    /\ Is(Joined[1].properties, "MEDIAN_INCOME", 60000)
    /\ Is(Joined[2].properties, "MEDIAN_INCOME", 0)
    /\ Is(Joined[3].properties, "median_incomeE", 40001)
    /\ dataState.statistics.averageIncome = 50001
    /\ dataState.statistics.averagePopulation = 1200

\* The stored segments that have an observed count that is not 0 and a
\* predicted value, 0 included.
Comparable ==
    {i \in DOMAIN Joined :
        /\ Number(Joined[i].properties, "OBSERVED_COUNT") # 0
        /\ Has(Joined[i].properties, "predicted")}

\* C23: modelAccuracy is 100 * (1 - mean(|observed - predicted| / observed))
\* rounded, the mean taken over the segments with an observed count that is not
\* 0 and a predicted value (0 included), and 0 when there is no such segment.
\* With d the product of the observed counts, the mean is
\* sum(|observed - predicted| * d / observed) / (d * n).
C23_ModelAccuracy ==
    dataState.isInitialized =>
        LET observed == [i \in DOMAIN Joined |-> Number(Joined[i].properties, "OBSERVED_COUNT")]
            d        == IF Comparable = {} THEN 1
                        ELSE LET RECURSIVE Product(_)
                                 Product(S) ==
                                     IF S = {} THEN 1
                                     ELSE LET i == CHOOSE j \in S : TRUE
                                          IN  observed[i] * Product(S \ {i})
                             IN  Product(Comparable)
            part     == [i \in DOMAIN Joined |->
                            IF i \in Comparable
                            THEN Abs(observed[i] - Joined[i].properties["predicted"])
                                     * (d \div observed[i])
                            ELSE 0]
            n        == Cardinality(Comparable)
        IN  dataState.statistics.modelAccuracy =
                IF n = 0 THEN 0
                ELSE Round(100 * (n * d - SumOver(Comparable, part)), n * d)

\* C24: totalObserved is the sum of the observed counts, totalEstimated the sum
\* of the predicted values, and averagePredicted is totalEstimated over the
\* number of segments that have a predicted value, 0 included, or 0 with no
\* such segment.
C24_Totals ==
    dataState.isInitialized =>
        LET observed  == [i \in DOMAIN Joined |-> Number(Joined[i].properties, "OBSERVED_COUNT")]
            predicted == [i \in DOMAIN Joined |-> Number(Joined[i].properties, "predicted")]
            estimated == {i \in DOMAIN Joined : Has(Joined[i].properties, "predicted")}
            stats     == dataState.statistics
        IN  /\ stats.totalObserved = SumOver(DOMAIN Joined, observed)
            /\ stats.totalEstimated = SumOver(DOMAIN Joined, predicted)
            /\ IF estimated = {}
               THEN stats.averagePredicted.num = 0
               ELSE stats.averagePredicted.num * Cardinality(estimated)
                        = stats.totalEstimated * stats.averagePredicted.den

\* The count a view selects for a segment: the observed count in the observed
\* view, the predicted value in the predicted view, and in the combined view
\* the observed count, else the predicted value, else 0.  A view whose field
\* the segment lacks selects 0.
SelectedCount(props, viewType) ==
    CASE viewType = "observed"  -> Number(props, "OBSERVED_COUNT")
      [] viewType = "predicted" -> Number(props, "predicted")
      [] OTHER -> IF Number(props, "OBSERVED_COUNT") # 0
                  THEN props["OBSERVED_COUNT"]
                  ELSE Number(props, "predicted")

\* The categories a volume filter names.
NamedBuckets(volumeFilter) ==
    IF volumeFilter.isArray THEN Names(volumeFilter.value) ELSE {volumeFilter.value}

\* C25: a road query with a volume filter and no other filter returns the
\* stored segments whose count as the view selects it is in a named category;
\* in the observed view no segment without an observed count comes back for its
\* predicted value.
C25_ViewSelectsCount ==
    (/\ returned.call = "getFilteredRoadData"
     /\ ~returned.touched
     /\ ~IsAllVolumes(returned.args.volumeFilter)
     /\ returned.args.neighborhood = "all"
     /\ returned.args.counterType = "all") =>
        LET filters  == returned.args
            stored   == dataState.roadNetworkData.features
            Named(f) == \E b \in NamedBuckets(filters.volumeFilter) :
                           InBucket(SelectedCount(f.properties, filters.viewType), b)
        IN  Plain(returned.value.features) = Plain(SelectSeq(stored, Named))

\* C26: every day the temporal table holds for a key is a sequence of exactly
\* 24 numbers, indexed by the hours 0 .. 23.
C26_DaysHave24Hours ==
    \A key \in DOMAIN dataState.temporalPredictions :
        \A day \in DOMAIN dataState.temporalPredictions[key] :
            LET hours == dataState.temporalPredictions[key][day]
            IN  /\ DOMAIN hours = 0 .. HoursPerDay - 1
                /\ \A h \in DOMAIN hours : hours[h] \in Nat

\* C27: a road query returns, in stored order, exactly the stored segments
\* that pass all three tests: the neighbourhood filter is "all" or is the
\* segment's neighbourhood, the counter type filter is "all" or is the
\* segment's counter type, and the volume filter is "all" or names a category
\* that holds the segment's selected count.
C27_FilterIsConjunction ==
    (returned.call = "getFilteredRoadData" /\ ~returned.touched) =>
        LET filters == returned.args
            stored  == dataState.roadNetworkData.features
            Pass(f) ==
                /\ \/ filters.neighborhood = "all"
                   \/ Is(f.properties, "NEIGHBORHOOD", filters.neighborhood)
                /\ \/ filters.counterType = "all"
                   \/ Is(f.properties, "COUNTER_TYPE", filters.counterType)
                /\ \/ IsAllVolumes(filters.volumeFilter)
                   \/ \E b \in NamedBuckets(filters.volumeFilter) :
                         InBucket(getCountForFeature(f, filters), b)
        IN  /\ Plain(returned.value.features) = Plain(SelectSeq(stored, Pass))
            /\ \A i \in DOMAIN stored :
                  Pass(stored[i]) <=>
                      \E j \in DOMAIN returned.value.features :
                          returned.value.features[j].id = stored[i].id

\* C27 witness: the filter Downtown and AUTO was asked over three stored
\* segments, two of them in Downtown and one of those with an AUTO counter, and
\* only that one came back.
C27_Witness ==
    /\ returned.call = "getFilteredRoadData"
    /\ ~returned.touched
    /\ returned.args.neighborhood = "Downtown"
    /\ returned.args.counterType = "AUTO"
    /\ Len(dataState.roadNetworkData.features) = 3
    /\ Cardinality({i \in 1 .. 3 :
           Is(dataState.roadNetworkData.features[i].properties, "NEIGHBORHOOD", "Downtown")}) = 2
    /\ Cardinality({i \in 1 .. 3 :
           Is(dataState.roadNetworkData.features[i].properties, "COUNTER_TYPE", "AUTO")}) = 1
    /\ Len(returned.value.features) = 1
    /\ Is(returned.value.features[1].properties, "COUNTER_TYPE", "AUTO")

\* How far a loader is: its first fetch under way, its second, or done.
AttemptRank(state) ==
    CASE state = "fetching" -> 0
      [] state = "backup"   -> 1
      [] OTHER              -> 2

\* C28: a loader only moves forward, from its first fetch to its fallback or,
\* for the road loader alone, through one second fetch; a loader that is done
\* stays as it is; and every round of initData that was started settles.
C28_LoadersSettle ==
    /\ [][\A r \in DOMAIN rounds : \A l \in Loaders :
             LET before == rounds[r].load[l]
                 after  == rounds'[r].load[l]
             IN  /\ after # before => AttemptRank(after.state) > AttemptRank(before.state)
                 /\ after.state = "backup" => l = "road"]_vars
    /\ \A r \in 1 .. MaxInitCalls :
          (r \in DOMAIN rounds) ~> (r \in DOMAIN rounds /\ rounds[r].promise # "pending")

\* C28 witness: every fetch of a round failed, the road loader's two included,
\* each loader holds its fallback, and the round is resolved.
C28_Witness ==
    /\ Len(rounds) = 1
    /\ \A l \in Loaders :
          /\ rounds[1].load[l].state = "settled"
          /\ rounds[1].load[l].source = "fallback"
    /\ rounds[1].promise = "resolved"
    /\ dataState.isInitialized

\* C29: whenever initData is called, at most one round of fetches is ever
\* started, the then-callback runs at most once and data:loaded is dispatched
\* at most once.
C29_OnePipeline ==
    /\ Len(rounds) <= 1
    /\ Cardinality({r \in DOMAIN rounds : rounds[r].promise = "resolved"}) <= 1
    /\ events <= 1

\* C30: after any click on the stats toggle the panel is in the other state
\* than before the click: expanded if it was collapsed, collapsed if it was
\* expanded.
C30_OneClickOneFlip ==
    page.clicks > 0 => page.expanded # page.before

====
